---- MODULE Spec2Model ----
(***************************************************************************)
(* A model of cmdata's variable resolver (datadesc/yamlfuncs.py,           *)
(* datadesc/helpers.py), of LabelMap (labels/labelmapping.py), of          *)
(* LabelfileManager (labels/labelfiles.py) and of the data loaders         *)
(* (dataproc/data_loading.py).                                             *)
(*                                                                         *)
(* A configuration tree is a nested value.  Every node is a record         *)
(*   [t, s, items]                                                         *)
(* with t the Python type ("str", "map", "seq", "num", "bool", "none"), s   *)
(* the characters of a string (or of str(v) for a number, a boolean or     *)
(* None) and items the children of a container, in iteration order, each   *)
(* [k |-> key, v |-> node] (a list element has the empty key).  Characters *)
(* are one-letter strings.                                                 *)
(***************************************************************************)
EXTENDS Integers, Sequences, FiniteSets, TLC

VARIABLES
    callerData,       \* the object the caller passed as `data`
    data,             \* the object resolve_variables works on
    max_iterations,   \* the argument max_iterations
    inplace,          \* the argument inplace
    pc,               \* "idle", "loop", "returned", "raised"
    num_iterations,   \* _num_iterations
    exc,              \* the exception raised, "none" if none
    passes,           \* whole-tree passes run by the current call
    leafChanged,      \* whether the last pass changed some string leaf
    madeAny,          \* whether some pass of the current call reported a change
    callerBefore,     \* the caller's tree as it was when the call started
    ncall,            \* 1 for the first call, 2 for the call on its result
    lm,               \* the LabelMap instance: [df, code_col_name, name, attrs]
    lmState,          \* "none", "built", "failed" (the constructor raised)
    lmExc,            \* the exception from_yaml ended with, "none" if none
    yamlCall,         \* the arguments of the from_yaml call
    ctor,             \* the arguments from_yaml passed to the constructor
    mapCall,          \* the arguments of the last map_pd call
    mapOut,           \* what the last map_pd call returned
    mapExc,           \* the exception the last map_pd call raised, or "none"
    mapPrev,          \* the map_pd calls before the last one
    idxCall,          \* the arguments of the map_pd_index call
    idxObj,           \* the caller's pandas object
    idxRet,           \* how map_pd_index ended: [exc, out, same]
    idxMapCalls,      \* the map_pd calls map_pd_index has made
    mgrArg,           \* the `yamlfiles` argument of LabelfileManager(...)
    mgr,              \* the LabelfileManager: [yamlfiles, labelsets]
    mgrExc,           \* the exception the constructor raised, or "none"
    mgrBuilt,         \* the registries as they were when __init__ returned
    mgrOp,            \* the last operation on the manager and how it ended
    labelMaps,        \* the LabelMap instances get_label_map has returned
    ldCall,           \* the loader and the arguments of load_raw_dataset
    ldPc,             \* where load_raw_dataset is
    ldLog,            \* the calls load_raw_dataset has made, in order
    ldRet,            \* how load_raw_dataset ended: [exc, out]
    prCall,           \* the loader configuration and the raw table
    prPc,             \* the stage process_raw_df is at
    heap,             \* the table objects, by identity
    prDf,             \* the identity of the table `_df` names
    prLog,            \* the stages process_raw_df has run, in order
    prExc,            \* the exception process_raw_df raised, or "none"
    ivCall,           \* the arguments of the set_intervals call
    ivRet,            \* how set_intervals ended: [exc, out]
    configs,          \* the DataConfig objects, by identity: their options
    loaders,          \* the loaders built: the identity of their data_config
    cfgSeen,          \* for each loader, the options of its data_config
                      \* when it was built
    cfgExc,           \* the exception the last loader constructor raised
    cfgCall,          \* the arguments of the last loader constructor and
                      \* the identity of the configuration it stored
    glParser,         \* the list parser: [list_separator, strip_items]
    glCall,           \* the arguments of the getlist call
    glRet,            \* how getlist ended: [exc, out]
    dcCall,           \* the arguments of DataConfig(...)
    dcRet             \* how DataConfig(...) ended: [exc, options]

resolveVars == <<callerData, data, max_iterations, inplace, pc, num_iterations,
                 exc, passes, leafChanged, madeAny, callerBefore, ncall>>
labelVars == <<lm, lmState, lmExc, yamlCall, ctor, mapCall, mapOut, mapExc,
               mapPrev>>
indexVars == <<idxCall, idxObj, idxRet, idxMapCalls>>
managerVars == <<mgrArg, mgr, mgrExc, mgrBuilt, mgrOp, labelMaps>>
loadVars == <<ldCall, ldPc, ldLog, ldRet>>
processVars == <<prCall, prPc, heap, prDf, prLog, prExc>>
intervalVars == <<ivCall, ivRet>>
listVars == <<glParser, glCall, glRet>>
rootVars == <<dcCall, dcRet>>
configVars == <<configs, loaders, cfgSeen, cfgExc, cfgCall, listVars, rootVars>>
labelfileVars == <<indexVars, managerVars>>
dataprocVars == <<loadVars, processVars, intervalVars, configVars>>
vars == <<resolveVars, labelVars, labelfileVars, dataprocVars>>

(***************************************************************************)
(* Bounds of the model.                                                    *)
(***************************************************************************)
MaxIter == 2
MaxKeys == 3
MaxRows == 2
MaxLen == 2
MaxTopKeys == 3
MaxValueKeys == 2

----------------------------------------------------------------------------
\* F(e), with e evaluated once
With(e, F(_)) == CHOOSE y \in {F(x) : x \in {e}} : TRUE

----------------------------------------------------------------------------
(* Trees *)

Str(chars) == [t |-> "str", s |-> chars, items |-> <<>>]
Num(chars) == [t |-> "num", s |-> chars, items |-> <<>>]
Map(its) == [t |-> "map", s |-> <<>>, items |-> its]
Lst(nodes) == [t |-> "seq", s |-> <<>>,
               items |-> [i \in 1..Len(nodes) |-> [k |-> <<>>, v |-> nodes[i]]]]
KV(key, node) == [k |-> key, v |-> node]

IsContainer(node) == node.t \in {"map", "seq"}

RECURSIVE GetAt(_, _)
GetAt(root, path) ==
    IF path = <<>> THEN root
    ELSE GetAt(root.items[Head(path)].v, Tail(path))

RECURSIVE SetAt(_, _, _)
SetAt(root, path, node) ==
    IF path = <<>> THEN node
    ELSE [root EXCEPT !.items[Head(path)].v = SetAt(@, Tail(path), node)]

----------------------------------------------------------------------------
(* substitute_var *)

\* str.split(separator) for the one-character separator "/"
RECURSIVE SplitFrom(_, _, _)
SplitFrom(chars, i, cur) ==
    IF i > Len(chars) THEN <<cur>>
    ELSE IF chars[i] = "/" THEN <<cur>> \o SplitFrom(chars, i + 1, <<>>)
    ELSE SplitFrom(chars, i + 1, Append(cur, chars[i]))

Split(chars) == SplitFrom(chars, 1, <<>>)

\* _subs[index] with a str index: the node found, or the exception raised
Subscript(node, index) ==
    IF node.t = "map" THEN
        IF \E i \in 1..Len(node.items) : node.items[i].k = index
        THEN [err |-> "none",
              node |-> node.items[CHOOSE i \in 1..Len(node.items) :
                                     node.items[i].k = index].v]
        ELSE [err |-> "KeyError", node |-> node]
    ELSE [err |-> "TypeError", node |-> node]

\* get_subst: walk the indexes from the root
RECURSIVE Walk(_, _)
Walk(node, indexes) ==
    IF indexes = <<>> THEN [err |-> "none", node |-> node]
    ELSE With(Subscript(node, Head(indexes)), LAMBDA r :
         IF r.err # "none" THEN r ELSE Walk(r.node, Tail(indexes)))

get_subst(group, substitute_data) == Walk(substitute_data, Split(group))

\* The end of the match of \$\{(.+)\} : `.+` is greedy, so the match ends at
\* the last "}" of the text.
LastBrace(chars) ==
    IF \E j \in 1..Len(chars) : chars[j] = "}"
    THEN CHOOSE j \in 1..Len(chars) :
            chars[j] = "}" /\ \A m \in (j + 1)..Len(chars) : chars[m] # "}"
    ELSE 0

\* The starts at which \$\{(.+)\} matches: "${", one character at least, "}"
MatchStarts(chars) ==
    {i \in 1..Len(chars) :
        /\ i + 3 <= LastBrace(chars)
        /\ chars[i] = "$"
        /\ chars[i + 1] = "{"}

HasMatch(chars) == MatchStarts(chars) # {}

MatchStart(chars) ==
    CHOOSE i \in MatchStarts(chars) : \A m \in MatchStarts(chars) : i <= m

MatchGroup(chars) == SubSeq(chars, MatchStart(chars) + 2, LastBrace(chars) - 1)

\* var_pattern.sub(get_subst, text): [err, s]
substitute_var(text, substitute_data) ==
    IF ~HasMatch(text) THEN [err |-> "none", s |-> text]
    ELSE With(get_subst(MatchGroup(text), substitute_data), LAMBDA r :
         IF r.err # "none" THEN [err |-> r.err, s |-> text]
         ELSE IF r.node.t # "str" THEN [err |-> "TypeError", s |-> text]
         ELSE [err |-> "none",
               s |-> SubSeq(text, 1, MatchStart(text) - 1) \o r.node.s
                     \o SubSeq(text, LastBrace(text) + 1, Len(text))])

----------------------------------------------------------------------------
(* resolve_variables *)

\* made_substitutions after a string leaf: set when the leaf changed
MadeAfterLeaf(before, changed) == before \/ changed

\* made_substitutions after a nested container: assigned the nested result
MadeAfterNested(before, nested) == nested

\* The for loop of crawl_through_data over the children i.. of the container
\* at `path`.  st = [root, made, leaf, err]: the tree (substitutions are made
\* in place, and later lookups read the tree as changed so far),
\* made_substitutions, whether a string leaf was changed, and the exception.
RECURSIVE CrawlFrom(_, _, _)
CrawlFrom(st, path, i) ==
    IF st.err # "none" \/ i > Len(GetAt(st.root, path).items) THEN st
    ELSE With(GetAt(st.root, path).items[i].v, LAMBDA child :
         IF child.t = "str" THEN
             With(substitute_var(child.s, st.root), LAMBDA r :
             IF r.err # "none" THEN [st EXCEPT !.err = r.err]
             ELSE With([root |-> SetAt(st.root, Append(path, i), Str(r.s)),
                        made |-> MadeAfterLeaf(st.made, r.s # child.s),
                        leaf |-> st.leaf \/ r.s # child.s,
                        err |-> "none"],
                       LAMBDA next : CrawlFrom(next, path, i + 1)))
         ELSE IF ~IsContainer(child) THEN [st EXCEPT !.err = "TypeError"]
         ELSE With(CrawlFrom([st EXCEPT !.made = FALSE], Append(path, i), 1),
                   LAMBDA sub :
              With([sub EXCEPT !.made = MadeAfterNested(st.made, sub.made)],
                   LAMBDA next : CrawlFrom(next, path, i + 1))))

crawl_through_data(tree) ==
    CrawlFrom([root |-> tree, made |-> FALSE, leaf |-> FALSE, err |-> "none"],
              <<>>, 1)

\* while crawl_through_data(data, data):
LoopContinues(made) == made

\* The budget check left out
LoopExceededNever(n, max) == FALSE

\* if _num_iterations > max_iterations:
LoopExceeded(n, max) == n > max

\* copy.copy in place of copy.deepcopy: a new top-level container whose
\* nested containers are the caller's
CopyModeShallow(ip) == IF ip THEN "alias" ELSE "shallow"

\* How the working object relates to the caller's: the same object
\* (inplace), or a deep copy
CopyMode(ip) == IF ip THEN "alias" ELSE "deep"

\* The caller's object after the working object became `new`
CallerView(caller, new, mode) ==
    IF mode = "alias" THEN new
    ELSE IF mode = "deep" THEN caller
    ELSE [caller EXCEPT !.items =
            [i \in DOMAIN caller.items |->
                IF IsContainer(caller.items[i].v) THEN new.items[i]
                ELSE caller.items[i]]]

letters == <<"a", "b", "c", "d", "e", "f">>
KeyName(i) == <<letters[i]>>

RefA == <<"$", "{", "a", "}">>
RefB == <<"$", "{", "b", "}">>
RefCK == <<"$", "{", "c", "/", "k", "}">>
GrowA == <<"x", "$", "{", "a", "}">>
TwoRefs == <<"$", "{", "a", "}", "/", "$", "{", "b", "}">>

Leaves ==
    { Str(<<"x">>), Str(<<"y">>), Str(RefA), Str(RefB), Str(RefCK), Str(GrowA),
      Str(TwoRefs), Num(<<"5">>),
      Map(<<KV(<<"k">>, Str(<<"x">>))>>),
      Map(<<KV(<<"k">>, Str(RefB))>>),
      Lst(<<>>) }

\* The mappings with the keys a, b, ... in this order
MapTrees(n) ==
    { Map([i \in 1..n |-> KV(KeyName(i), f[i])]) : f \in [1..n -> Leaves] }

Trees ==
    UNION { MapTrees(n) : n \in 1..MaxKeys }
    \cup { Lst(<<v>>) : v \in Leaves }
    \cup { v \in Leaves : v.t = "str" }

NoCall == [none |-> TRUE]

IndexIdle ==
    /\ idxCall = NoCall
    /\ idxObj = NoCall
    /\ idxRet = NoCall
    /\ idxMapCalls = <<>>

ManagerIdle ==
    /\ mgrArg = NoCall
    /\ mgr = NoCall
    /\ mgrExc = "none"
    /\ mgrBuilt = NoCall
    /\ mgrOp = NoCall
    /\ labelMaps = <<>>

LoadIdle ==
    /\ ldCall = NoCall
    /\ ldPc = "idle"
    /\ ldLog = <<>>
    /\ ldRet = NoCall

ProcessIdle ==
    /\ prCall = NoCall
    /\ prPc = "idle"
    /\ heap = <<>>
    /\ prDf = 0
    /\ prLog = <<>>
    /\ prExc = "none"

IntervalIdle ==
    /\ ivCall = NoCall
    /\ ivRet = NoCall

ConfigIdle ==
    /\ configs = <<>>
    /\ loaders = <<>>
    /\ cfgSeen = <<>>
    /\ cfgExc = "none"
    /\ cfgCall = NoCall
    /\ glParser = NoCall
    /\ glCall = NoCall
    /\ glRet = NoCall
    /\ dcCall = NoCall
    /\ dcRet = NoCall

LabelfileIdle == IndexIdle /\ ManagerIdle
DataprocIdle == LoadIdle /\ ProcessIdle /\ IntervalIdle /\ ConfigIdle

LabelIdle ==
    /\ lm = NoCall
    /\ lmState = "none"
    /\ lmExc = "none"
    /\ yamlCall = NoCall
    /\ ctor = NoCall
    /\ mapCall = NoCall
    /\ mapOut = <<>>
    /\ mapExc = "none"
    /\ mapPrev = <<>>

\* The state before the call, the caller's tree drawn from `trees`
ResolveInitFrom(trees) ==
    /\ callerData \in trees
    /\ data = callerData
    /\ callerBefore = callerData
    /\ max_iterations = 0
    /\ inplace = FALSE
    /\ pc = "idle"
    /\ num_iterations = 0
    /\ exc = "none"
    /\ passes = 0
    /\ leafChanged = FALSE
    /\ madeAny = FALSE
    /\ ncall = 1
    /\ LabelIdle
    /\ LabelfileIdle
    /\ DataprocIdle

ResolveInit == ResolveInitFrom(Trees)

\* resolve_variables(tree, max_iterations=mi, inplace=ip) up to the loop:
\* the copy, and the plain-string case
Enter(tree, mi, ip) ==
    /\ max_iterations' = mi
    /\ inplace' = ip
    /\ callerData' = tree
    /\ callerBefore' = tree
    /\ num_iterations' = 0
    /\ passes' = 0
    /\ leafChanged' = FALSE
    /\ madeAny' = FALSE
    /\ IF tree.t = "str"
       THEN \E r \in {substitute_var(tree.s, tree)} :
            /\ data' = Str(r.s)
            /\ exc' = r.err
            /\ pc' = IF r.err = "none" THEN "returned" ELSE "raised"
       ELSE /\ data' = tree
            /\ exc' = "none"
            /\ pc' = "loop"

Call ==
    /\ pc = "idle"
    /\ \E mi \in 0..MaxIter, ip \in BOOLEAN : Enter(callerData, mi, ip)
    /\ UNCHANGED <<ncall, labelVars, labelfileVars, dataprocVars>>

\* One iteration of the while loop: a whole-tree pass, then the budget check
Pass ==
    /\ pc = "loop"
    /\ \E r \in {crawl_through_data(data)} :
       /\ data' = r.root
       /\ callerData' = CallerView(callerData, r.root, CopyMode(inplace))
       /\ passes' = passes + 1
       /\ leafChanged' = r.leaf
       /\ IF r.err # "none"
          THEN /\ pc' = "raised"
               /\ exc' = r.err
               /\ UNCHANGED <<num_iterations, madeAny>>
          ELSE IF LoopContinues(r.made)
          THEN /\ num_iterations' = num_iterations + 1
               /\ madeAny' = TRUE
               /\ IF LoopExceeded(num_iterations + 1, max_iterations)
                  THEN pc' = "raised" /\ exc' = "VarResolutionError"
                  ELSE pc' = "loop" /\ exc' = "none"
          ELSE /\ pc' = "returned"
               /\ exc' = "none"
               /\ UNCHANGED <<num_iterations, madeAny>>
    /\ UNCHANGED <<max_iterations, inplace, callerBefore, ncall, labelVars,
                   labelfileVars, dataprocVars>>

\* The caller passes the returned tree to resolve_variables once more
CallAgain ==
    /\ pc = "returned"
    /\ ncall = 1
    /\ Enter(data, max_iterations, inplace)
    /\ ncall' = 2
    /\ UNCHANGED <<labelVars, labelfileVars, dataprocVars>>

ResolveNext == Call \/ Pass \/ CallAgain

ResolveSpec == ResolveInit /\ [][ResolveNext]_vars

\* The trees of plain, self-referencing, cyclic and growing definitions
CycleLeaves ==
    { Str(<<"x">>), Str(RefA), Str(RefB), Str(GrowA),
      Map(<<KV(<<"k">>, Str(RefB))>>) }

CycleTrees ==
    UNION { { Map([i \in 1..n |-> KV(KeyName(i), f[i])]) :
                f \in [1..n -> CycleLeaves] } : n \in 1..MaxKeys }
    \cup { Lst(<<v>>) : v \in CycleLeaves }

ResolveIdle ==
    /\ callerData = Str(<<>>)
    /\ data = Str(<<>>)
    /\ callerBefore = Str(<<>>)
    /\ max_iterations = 0
    /\ inplace = FALSE
    /\ pc = "idle"
    /\ num_iterations = 0
    /\ exc = "none"
    /\ passes = 0
    /\ leafChanged = FALSE
    /\ madeAny = FALSE
    /\ ncall = 1

\* The interpreter runs the loop: a pass that can be taken is taken
ResolveFairSpec ==
    ResolveInitFrom(CycleTrees) /\ [][ResolveNext]_vars /\ WF_vars(Pass)

----------------------------------------------------------------------------
(* Claims about resolve_variables *)

Done == pc \in {"returned", "raised"}

CycleAB == Map(<<KV(KeyName(1), Str(RefB)), KV(KeyName(2), Str(RefA))>>)

\* C1: resolve_variables on the tree {a: "${b}", b: "${a}"} raises
\* VarResolutionError, whatever max_iterations is, and never returns a tree.
C1_CycleRaises ==
    (ncall = 1 /\ callerBefore = CycleAB /\ Done)
        => (pc = "raised" /\ exc = "VarResolutionError")

\* C2: every call of resolve_variables ends: it runs at most
\* max_iterations + 1 whole-tree passes, and once in the loop it returns or
\* raises.
C2_Terminates ==
    /\ [](passes <= max_iterations + 1)
    /\ (pc = "loop") ~> Done

\* C2 witness: a call that used its whole budget of passes and raised
C2_Witness ==
    /\ pc = "raised"
    /\ exc = "VarResolutionError"
    /\ max_iterations = MaxIter
    /\ passes = MaxIter + 1

\* C3: resolve_variables on a tree it returned returns an equal tree, and no
\* pass of that second call reports a change.
C3_Idempotent ==
    (ncall = 2 /\ Done)
        => (pc = "returned" /\ data = callerBefore /\ ~madeAny)

\* C4: with inplace=False the caller's tree is, at every moment of the call
\* and after it (returned or raised), the tree it was when the call started.
C4_CallerUnchanged == (~inplace) => callerData = callerBefore

\* C4 witness: a call with inplace=False has ended after substituting in a
\* nested container of its working copy
C4_Witness ==
    /\ ~inplace
    /\ Done
    /\ passes > 0
    /\ data.t = "map"
    /\ \E i \in DOMAIN data.items :
          /\ IsContainer(data.items[i].v)
          /\ data.items[i].v # callerBefore.items[i].v

TwoRefTree ==
    Map(<<KV(KeyName(1), Str(<<"x">>)), KV(KeyName(2), Str(<<"y">>)),
          KV(KeyName(3), Str(TwoRefs))>>)

\* C5: in {a: "x", b: "y", c: "${a}/${b}"} both references of c are replaced,
\* each by the value at its own path, and the "/" between them is kept.
C5_EveryOccurrence ==
    (ncall = 1 /\ callerBefore = TwoRefTree /\ Done)
        => (pc = "returned" /\ data.items[3].v = Str(<<"x", "/", "y">>))

\* C6: a container tree that resolve_variables returns is a fixed point (one
\* more whole-tree pass changes no string leaf), and the pass after which the
\* loop stopped changed no string leaf.
C6_FixedPoint ==
    (pc = "returned" /\ IsContainer(data))
        => (~crawl_through_data(data).leaf /\ ~leafChanged)

----------------------------------------------------------------------------
(* LabelMap: the vocabulary table *)

\* The missing marker (NaN / NA)
NA == "<NA>"

\* A dict is a sequence of entries [k |-> key, v |-> value], in order
Keys(dict) == [i \in 1..Len(dict) |-> dict[i].k]
HasKey(dict, key) == \E i \in 1..Len(dict) : dict[i].k = key
Get(dict, key) == dict[CHOOSE i \in 1..Len(dict) : dict[i].k = key].v
Has(seq, x) == \E i \in 1..Len(seq) : seq[i] = x

\* The elements of a sequence, each once, in the order of first appearance
RECURSIVE Distinct(_)
Distinct(seq) ==
    IF seq = <<>> THEN <<>>
    ELSE With(Distinct(SubSeq(seq, 1, Len(seq) - 1)), LAMBDA d :
         IF Has(d, seq[Len(seq)]) THEN d ELSE Append(d, seq[Len(seq)]))

RECURSIVE Concat(_)
Concat(seqs) == IF seqs = <<>> THEN <<>> ELSE Head(seqs) \o Concat(Tail(seqs))

\* A parsed YAML value: a string, or a dict of entries [k |-> key, v |-> value]
PyStr(str) == [kind |-> "str", s |-> str, items |-> <<>>]
PyDict(entries) == [kind |-> "dict", s |-> "", items |-> entries]
PyNone == [kind |-> "None", s |-> "", items |-> <<>>]

\* A dict whose values are dicts of strings
IsDictOfDicts(d) ==
    /\ d.kind = "dict"
    /\ \A i \in 1..Len(d.items) :
          /\ d.items[i].v.kind = "dict"
          /\ \A j \in 1..Len(d.items[i].v.items) :
                d.items[i].v.items[j].v.kind = "str"

\* pandas.DataFrame.from_dict(defdict, orient) for a dict of dicts: the outer
\* keys label the rows (orient "index") or the columns (orient "columns"),
\* the inner keys the other axis; a cell no inner dict gives is missing
FromDict(defdict, orient) ==
    LET outer == Keys(defdict.items)
        inner == Distinct(Concat([i \in 1..Len(defdict.items) |->
                                     Keys(defdict.items[i].v.items)]))
        At(o, n) == IF HasKey(Get(defdict.items, o).items, n)
                    THEN Get(Get(defdict.items, o).items, n).s
                    ELSE NA
    IN  IF orient = "index"
        THEN [index |-> outer, columns |-> inner,
              cell |-> [c \in {inner[j] : j \in 1..Len(inner)} |->
                          [r \in 1..Len(outer) |-> At(outer[r], c)]]]
        ELSE [index |-> inner, columns |-> outer,
              cell |-> [c \in {outer[j] : j \in 1..Len(outer)} |->
                          [r \in 1..Len(inner) |-> At(c, inner[r])]]]

default_code_col_name == "code"

\* self.attrs: the dict given, or a new empty dict for None
AttrsOf(attrsArg) == IF attrsArg = PyNone THEN PyDict(<<>>) ELSE attrsArg

\* LabelMap.__init__(defdict, orient, name=name, attrs=attrs)
LabelMapNew(defdict, orient, name, attrsArg) ==
    [df |-> FromDict(defdict, orient),
     code_col_name |-> default_code_col_name,
     name |-> name,
     attrs |-> AttrsOf(attrsArg)]

----------------------------------------------------------------------------
(* LabelMap.map_pd *)

\* A pandas object with the values of `obj` looked up in the index of a
\* Series mapper: the value at the matching index label, missing where no
\* label matches (a missing input matches no label of a fully populated axis)
MapValue(keys, vals, x) ==
    IF Has(keys, x) THEN vals[CHOOSE i \in 1..Len(keys) : keys[i] = x] ELSE NA

SeriesMap(obj, keys, vals) ==
    [i \in 1..Len(obj) |-> MapValue(keys, vals, obj[i])]

isna(obj) == [i \in 1..Len(obj) |-> obj[i] = NA]

\* The labels of a default RangeIndex: the positions 0, 1, ...  (integers, so
\* equal to no string label)
PosLabels == <<"#0", "#1", "#2", "#3", "#4", "#5">>
RangeIndex(n) == SubSeq(PosLabels, 1, n)

index_aliases(self) == {"index", self.code_col_name}

\* The mapper built from the internal DataFrame: what it is (a Series or a
\* one-column DataFrame), its index and its values
Mapper(self, map_from, map_to) ==
    LET t == self.df IN
    IF map_from \in index_aliases(self) THEN
        IF map_to \in index_aliases(self)
        THEN [err |-> "none", kind |-> "Series", keys |-> t.index, vals |-> t.index]
        ELSE IF ~Has(t.columns, map_to)
        THEN [err |-> "KeyError", kind |-> "", keys |-> <<>>, vals |-> <<>>]
        ELSE [err |-> "none", kind |-> "Series",
              keys |-> RangeIndex(Len(t.index)), vals |-> t.cell[map_to]]
    ELSE IF ~Has(t.columns, map_from)
    THEN [err |-> "KeyError", kind |-> "", keys |-> <<>>, vals |-> <<>>]
    ELSE IF map_to \in index_aliases(self)
    THEN [err |-> "none", kind |-> "DataFrame",
          keys |-> t.cell[map_from], vals |-> t.index]
    ELSE IF ~Has(t.columns, map_to)
    THEN [err |-> "KeyError", kind |-> "", keys |-> <<>>, vals |-> <<>>]
    ELSE [err |-> "none", kind |-> "DataFrame",
          keys |-> t.cell[map_from], vals |-> t.cell[map_to]]

\* mapper.iloc[:, 0]: the first column of a DataFrame; a Series has one
\* dimension only and raises IndexingError
FirstColumn(m) ==
    IF m.kind = "DataFrame" THEN [m EXCEPT !.kind = "Series"]
    ELSE [m EXCEPT !.err = "IndexingError"]

Raised(e) == [exc |-> e, out |-> <<>>]
Returned(obj) == [exc |-> "none", out |-> obj]

\* pdobj.map(mapper) with a one-column DataFrame as mapper.  What pandas does
\* with it depends on its version: the outcomes are an exception from the
\* conversion of the DataFrame, every value missing, or the values looked up.
MapByDataFrame(obj, m) ==
    { Raised("ValueError"), Raised("TypeError"),
      Returned([i \in 1..Len(obj) |-> NA]),
      Returned(SeriesMap(obj, m.keys, m.vals)) }

\* np.array_equal(mapped_obj.isna(), na_locs, equal_nan=True)
SameNaLocs(mapped, na_locs) == isna(mapped) = na_locs

\* map_pd(pdobj, map_from, map_to, raise_on_missing): the possible outcomes
map_pd(self, obj, map_from, map_to, raise_on_missing) ==
    LET m == Mapper(self, map_from, map_to) IN
    IF m.err # "none" THEN {Raised(m.err)}
    ELSE IF ~raise_on_missing THEN
        IF m.kind = "Series" THEN {Returned(SeriesMap(obj, m.keys, m.vals))}
        ELSE MapByDataFrame(obj, m)
    ELSE LET col == FirstColumn(m) IN
         IF col.err # "none" THEN {Raised(col.err)}
         ELSE LET mapped_obj == SeriesMap(obj, col.keys, col.vals) IN
              IF ~SameNaLocs(mapped_obj, isna(obj)) THEN {Raised("KeyError")}
              ELSE {Returned(mapped_obj)}

CodeLabels == <<"X", "Y", "W", "V">>
NameLabels == <<"Ex", "Why", "Dub", "Vee">>
AltLabels == <<"A1", "A2", "A3", "A4">>

\* {"X": {"name": "Ex"}, "Y": {"name": "Why"}, ...} with n codes
NameDict(n) ==
    PyDict([i \in 1..n |->
              [k |-> CodeLabels[i],
               v |-> PyDict(<<[k |-> "name", v |-> PyStr(NameLabels[i])]>>)]])

\* The same with a second column "alt"
NameAltDict(n) ==
    PyDict([i \in 1..n |->
              [k |-> CodeLabels[i],
               v |-> PyDict(<<[k |-> "name", v |-> PyStr(NameLabels[i])],
                              [k |-> "alt", v |-> PyStr(AltLabels[i])]>>)]])

\* The values a pdobj is made of: the labels of the table, a label "Z" that
\* is in no axis, and the missing marker
InputValues(self) ==
    {self.df.index[i] : i \in 1..Len(self.df.index)}
    \cup UNION { {self.df.cell[c][i] : i \in 1..Len(self.df.index)} :
                  c \in DOMAIN self.df.cell }
    \cup {"Z", NA}

Inputs(self) == UNION { [1..n -> InputValues(self)] : n \in 0..MaxLen }

AxisNames == {"index", "code", "name", "alt"}

MapInit ==
    /\ \E n \in 1..MaxRows, d \in {"name", "namealt"} :
          lm = LabelMapNew(IF d = "name" THEN NameDict(n) ELSE NameAltDict(n),
                           "index", "labels", PyNone)
    /\ lmState = "built"
    /\ lmExc = "none"
    /\ yamlCall = NoCall
    /\ ctor = NoCall
    /\ mapCall = NoCall
    /\ mapOut = <<>>
    /\ mapExc = "none"
    /\ mapPrev = <<>>
    /\ ResolveIdle
    /\ LabelfileIdle
    /\ DataprocIdle

\* One call of map_pd with the given arguments
DoMap(obj, map_from, map_to, raise_on_missing) ==
    /\ \E o \in map_pd(lm, obj, map_from, map_to, raise_on_missing) :
          /\ mapOut' = o.out
          /\ mapExc' = o.exc
    /\ mapCall' = [obj |-> obj, map_from |-> map_from, map_to |-> map_to,
                   raise_on_missing |-> raise_on_missing]
    /\ UNCHANGED <<lm, lmState, lmExc, yamlCall, ctor, resolveVars,
                   labelfileVars, dataprocVars>>

\* map_pd on a fresh pandas object
MapPd ==
    /\ lmState = "built"
    /\ mapCall = NoCall
    /\ \E obj \in Inputs(lm), f \in AxisNames, t \in AxisNames, r \in BOOLEAN :
          /\ (f = t) => f \in index_aliases(lm)
          /\ DoMap(obj, f, t, r)
    /\ mapPrev' = <<>>

\* map_pd on what the last call returned, mapping back from its map_to axis
\* to its map_from axis
MapBack ==
    /\ lmState = "built"
    /\ mapCall # NoCall
    /\ mapExc = "none"
    /\ mapPrev = <<>>
    /\ DoMap(mapOut, mapCall.map_to, mapCall.map_from, mapCall.raise_on_missing)
    /\ mapPrev' = <<[call |-> mapCall, out |-> mapOut]>>

MapNext == MapPd \/ MapBack

MapSpec == MapInit /\ [][MapNext]_vars

----------------------------------------------------------------------------
(* Claims about map_pd *)

IsAxis(self, a) == a \in index_aliases(self) \/ Has(self.df.columns, a)

\* The labels of an axis, row by row
AxisValues(self, a) ==
    IF a \in index_aliases(self) THEN self.df.index ELSE self.df.cell[a]

\* The translation the table defines: the label of axis `t` in the row whose
\* label of axis `f` is x, missing when no row has it
Translate(self, f, t, x) ==
    MapValue(AxisValues(self, f), AxisValues(self, t), x)

Translated(self, f, t, obj) ==
    [i \in 1..Len(obj) |-> Translate(self, f, t, obj[i])]

FirstCall == mapCall # NoCall /\ mapPrev = <<>>

CodeToColumn(call) ==
    /\ call.map_from \in index_aliases(lm)
    /\ Has(lm.df.columns, call.map_to)

\* C7: map_pd of codes of the table from the code axis to a column yields the
\* column's values position by position, and map_pd of that result from the
\* column back to the code axis yields the codes again.
C7_RoundTrip ==
    /\ (/\ FirstCall
        /\ CodeToColumn(mapCall)
        /\ mapCall.raise_on_missing
        /\ Len(mapCall.obj) > 0
        /\ \A i \in 1..Len(mapCall.obj) : Has(lm.df.index, mapCall.obj[i]))
        => (/\ mapExc = "none"
            /\ mapOut = Translated(lm, "index", mapCall.map_to, mapCall.obj))
    /\ (/\ mapPrev # <<>>
        /\ CodeToColumn(mapPrev[1].call)
        /\ \A i \in 1..Len(mapPrev[1].call.obj) :
              Has(lm.df.index, mapPrev[1].call.obj[i]))
        => (mapExc = "none" /\ mapOut = mapPrev[1].call.obj)

\* C8: map_pd from the code axis to a column, some input value being no code
\* of the table: with raise_on_missing it raises KeyError; without, it returns
\* the column's value for every code and the missing marker for the rest.
C8_MissingPolicy ==
    (/\ FirstCall
     /\ CodeToColumn(mapCall)
     /\ \E i \in 1..Len(mapCall.obj) :
           mapCall.obj[i] # NA /\ ~Has(lm.df.index, mapCall.obj[i]))
        => IF mapCall.raise_on_missing
           THEN mapExc = "KeyError"
           ELSE /\ mapExc = "none"
                /\ mapOut = Translated(lm, "index", mapCall.map_to, mapCall.obj)

\* C9: with raise_on_missing, whatever the two axes are, map_pd raises
\* KeyError exactly when some input value is not missing and has no entry in
\* the axis mapped from, it raises nothing else, and when it returns the
\* missing inputs are missing in the result.
C9_RaiseIffNewlyMissing ==
    (/\ FirstCall
     /\ mapCall.raise_on_missing
     /\ Len(mapCall.obj) > 0
     /\ IsAxis(lm, mapCall.map_from)
     /\ IsAxis(lm, mapCall.map_to))
        => /\ mapExc \in {"none", "KeyError"}
           /\ (mapExc = "KeyError") <=>
                 (\E i \in 1..Len(mapCall.obj) :
                     /\ mapCall.obj[i] # NA
                     /\ ~Has(AxisValues(lm, mapCall.map_from), mapCall.obj[i]))
           /\ (mapExc = "none") =>
                 (\A i \in 1..Len(mapCall.obj) :
                     mapCall.obj[i] = NA => mapOut[i] = NA)

----------------------------------------------------------------------------
(* LabelMap.from_yaml *)

_yaml_meta_keys ==
    <<"code_type", "orient", "columns", "ordered", "parent", "parent_file",
      "hierarchy_level", "data">>

_yaml_data_key == "data"

\* The test without its second part: any dict of metadata keys only
HasMetaBlockNoData(def) ==
    \A i \in 1..Len(def.items) : Has(_yaml_meta_keys, def.items[i].k)

\* set(_def.keys()).issubset(cls._yaml_meta_keys) and
\* cls._yaml_data_key in _def.keys()
HasMetaBlock(def) ==
    /\ \A i \in 1..Len(def.items) : Has(_yaml_meta_keys, def.items[i].k)
    /\ HasKey(def.items, _yaml_data_key)

\* The entries of a dict whose key is not `key`, in order
RECURSIVE Without(_, _)
Without(entries, key) ==
    IF entries = <<>> THEN <<>>
    ELSE IF Head(entries).k # key
    THEN <<Head(entries)>> \o Without(Tail(entries), key)
    ELSE Without(Tail(entries), key)

\* attrdict: every entry of _def but the data entry, or None
AttrDict(def, read_attrs) ==
    IF read_attrs THEN PyDict(Without(def.items, _yaml_data_key)) ELSE PyNone

\* The orientation from_yaml passes on in the metadata branch
MetaOrient(def, orient) ==
    IF orient = "None"
    THEN IF HasKey(def.items, "orient") THEN Get(def.items, "orient").s
         ELSE "index"
    ELSE orient

\* The orientation from_yaml passes on in the flat branch
FlatOrient(orient) == IF orient = "None" THEN "index" ELSE orient

\* Whether from_yaml subscripts _def with a key it does not have
\* (_def[cls._yaml_data_key], a KeyError)
DataKeyError(def) == HasMetaBlock(def) /\ ~HasKey(def.items, _yaml_data_key)

\* The constructor call from_yaml makes for the parsed item _def
CtorArgs(def, key, orient, read_attrs) ==
    IF HasMetaBlock(def)
    THEN [defdict |-> Get(def.items, _yaml_data_key),
          orient |-> MetaOrient(def, orient),
          attrs |-> AttrDict(def, read_attrs),
          name |-> key]
    ELSE [defdict |-> def,
          orient |-> FlatOrient(orient),
          attrs |-> PyNone,
          name |-> key]

\* What the constructor does with its arguments: it builds the instance from a
\* dict of dicts.  What pandas makes of any other value depends on the value
\* and on the orientation: an exception, or a frame labelled by the keys.
Construct(a) ==
    IF IsDictOfDicts(a.defdict) /\ a.orient \in {"index", "columns"}
    THEN { [exc |-> "none",
            lm |-> LabelMapNew(a.defdict, a.orient, a.name, a.attrs)] }
    ELSE { [exc |-> e, lm |-> NoCall] :
              e \in {"ValueError", "AttributeError", "TypeError"} }
         \cup
         { [exc |-> "none",
            lm |-> [df |-> [index |-> Keys(a.defdict.items), columns |-> <<>>,
                            cell |-> <<>>],
                    code_col_name |-> default_code_col_name,
                    name |-> a.name,
                    attrs |-> AttrsOf(a.attrs)]] }

\* The value the definition sources of the model give a top-level key
NonMetaKeys == <<"X", "Y", "Data">>

YamlValue(key, orientVal, metaRec) ==
    IF key = "data" THEN NameDict(2)
    ELSE IF key = "orient" THEN PyStr(orientVal)
    ELSE IF key = "X" THEN PyDict(<<[k |-> "name", v |-> PyStr("Ex")]>>)
    ELSE IF key = "Y" THEN PyDict(<<[k |-> "name", v |-> PyStr("Why")]>>)
    ELSE IF key = "Data" \/ metaRec
    THEN PyDict(<<[k |-> "name", v |-> PyStr("Dee")]>>)
    ELSE PyStr("m")

AllKeys == _yaml_meta_keys \o NonMetaKeys

\* The definitions with the top-level keys AllKeys[i], i in `chosen`, in order
RECURSIVE EntriesFrom(_, _, _, _)
EntriesFrom(i, chosen, orientVal, metaRec) ==
    IF i > Len(AllKeys) THEN <<>>
    ELSE (IF i \in chosen
          THEN <<[k |-> AllKeys[i], v |-> YamlValue(AllKeys[i], orientVal, metaRec)]>>
          ELSE <<>>)
         \o EntriesFrom(i + 1, chosen, orientVal, metaRec)

Defs ==
    { PyDict(EntriesFrom(1, chosen, ov, mr)) :
        chosen \in {c \in SUBSET (1..Len(AllKeys)) : Cardinality(c) <= MaxTopKeys},
        ov \in {"index", "columns"},
        mr \in BOOLEAN }

YamlInit ==
    /\ LabelIdle
    /\ ResolveIdle
    /\ LabelfileIdle
    /\ DataprocIdle

\* The value of the parameter `orient` in a call that does not pass it
OrientDefault == "columns"

\* LabelMap.from_yaml(yamlfile, key, orient, read_attrs), the file holding
\* `def` (under `key`, when a key is given); `orient` is passed or left out
FromYaml ==
    /\ lmState = "none"
    /\ \E def \in Defs, key \in {"None", "labels"}, orient_given \in BOOLEAN,
          read_attrs \in BOOLEAN :
       \E orient \in IF orient_given THEN {"None", "index", "columns"}
                      ELSE {OrientDefault} :
          /\ yamlCall' = [def |-> def, key |-> key, orient |-> orient,
                          orient_given |-> orient_given,
                          read_attrs |-> read_attrs]
          /\ IF DataKeyError(def)
             THEN /\ ctor' = NoCall
                  /\ lm' = NoCall
                  /\ lmExc' = "KeyError"
                  /\ lmState' = "failed"
             ELSE /\ ctor' = CtorArgs(def, key, orient, read_attrs)
                  /\ \E o \in Construct(CtorArgs(def, key, orient, read_attrs)) :
                        /\ lm' = o.lm
                        /\ lmExc' = o.exc
                        /\ lmState' = IF o.exc = "none" THEN "built" ELSE "failed"
    /\ UNCHANGED <<mapCall, mapOut, mapExc, mapPrev, resolveVars,
                   labelfileVars, dataprocVars>>

YamlNext == FromYaml

YamlSpec == YamlInit /\ [][YamlNext]_vars

----------------------------------------------------------------------------
(* Claims about from_yaml *)

AllowList ==
    {"code_type", "orient", "columns", "ordered", "parent", "parent_file",
     "hierarchy_level", "data"}

KeySet(d) == {d.items[i].k : i \in 1..Len(d.items)}

\* The row and column labels of a table
Labels(t) ==
    {t.index[i] : i \in 1..Len(t.index)} \cup {t.columns[i] : i \in 1..Len(t.columns)}

EntrySet(d) == {d.items[i] : i \in 1..Len(d.items)}

\* The entries of the definition that are not its data entry, as a set
OtherEntries(d) == {e \in EntrySet(d) : e.k # "data"}

----------------------------------------------------------------------------
(* LabelMap.map_pd_index *)

\* The labels of an axis of a pandas object.  A flat Index has one level,
\* its labels; a MultiIndex has named levels and, for every position, the
\* codes (positions within the levels) of its label tuple.
FlatIndex(labels) ==
    [multi |-> FALSE, names |-> <<>>, levels |-> <<labels>>, codes |-> <<>>]
MultiIndex(names, levels, codes) ==
    [multi |-> TRUE, names |-> names, levels |-> levels, codes |-> codes]

\* A Series has an index only, a DataFrame an index and columns
PdSeries(index) == [kind |-> "Series", index |-> index, columns |-> NoCall]
PdDataFrame(index, columns) ==
    [kind |-> "DataFrame", index |-> index, columns |-> columns]

\* The argument `level`: None, an int, a str, or a value of another type
LevelNone == [t |-> "None", n |-> 0, s |-> ""]
LevelInt(i) == [t |-> "int", n |-> i, s |-> ""]
LevelStr(name) == [t |-> "str", n |-> 0, s |-> name]
LevelOther == [t |-> "other", n |-> 0, s |-> ""]

\* isinstance(indexobj, pd.MultiIndex)
IsMultiIndex(indexobj) == indexobj.multi

\* The guard of the first check: a MultiIndex with no level given
LevelMissing(level, indexobj) == level = LevelNone /\ IsMultiIndex(indexobj)

\* The second check left out
LevelUnexpectedNever(level, indexobj) == FALSE

\* The guard of the second check: a level given for a flat index
LevelUnexpected(level, indexobj) ==
    level # LevelNone /\ ~IsMultiIndex(indexobj)

\* list.index(x): the position (from 0) of the first occurrence
ListIndex(seq, x) == (CHOOSE i \in 1..Len(seq) : seq[i] = x /\
                         \A j \in 1..(i - 1) : seq[j] # x) - 1

\* seq[i] for a Python int i: negative values count from the end
PyAt(seq, i) == IF i >= 0 THEN seq[i + 1] ELSE seq[Len(seq) + i + 1]
InRange(seq, i) == i < Len(seq) /\ i >= 0 - Len(seq)

\* Whether the object the new labels are assigned to is a shallow copy of
\* the caller's object
CopiesFirst(inplace_arg) == inplace_arg

IdxRaised(e, pdobj, calls) ==
    [exc |-> e, out |-> NoCall, same |-> FALSE, caller |-> pdobj, calls |-> calls]
IdxReturned(new, pdobj, inplace_arg, calls) ==
    [exc |-> "none", out |-> new, same |-> ~CopiesFirst(inplace_arg),
     caller |-> IF CopiesFirst(inplace_arg) THEN pdobj ELSE new,
     calls |-> calls]

\* pdobj with `labels` as its axis `axis`
SetAxis(pdobj, axis, labels) ==
    IF axis = "index" THEN [pdobj EXCEPT !.index = labels]
    ELSE [pdobj EXCEPT !.columns = labels]

\* MultiIndex.set_levels(levels=new, level=i): the level values must be unique
SetLevels(indexobj, i, new) ==
    IF Len(Distinct(new)) # Len(new)
    THEN [err |-> "ValueError", index |-> indexobj]
    ELSE [err |-> "none",
          index |-> [indexobj EXCEPT
                        !.levels[IF i >= 0 THEN i + 1
                                 ELSE Len(indexobj.levels) + i + 1] = new]]

\* map_pd_index(pdobj, map_from, map_to, axis, level, raise_on_missing,
\* inplace): the possible outcomes
map_pd_index(self, pdobj, map_from, map_to, axis, level, raise_on_missing, inplace_arg) ==
    IF axis = "columns" /\ pdobj.kind = "Series"
    THEN {IdxRaised("AttributeError", pdobj, <<>>)}
    ELSE
    LET indexobj == IF axis = "index" THEN pdobj.index ELSE pdobj.columns IN
    IF LevelMissing(level, indexobj)
    THEN {IdxRaised("ValueError", pdobj, <<>>)}
    ELSE IF LevelUnexpected(level, indexobj)
    THEN {IdxRaised("TypeError", pdobj, <<>>)}
    ELSE IF level.t = "str" /\ ~Has(indexobj.names, level.s)
    THEN {IdxRaised("ValueError", pdobj, <<>>)}
    ELSE IF level.t = "other"
    THEN {IdxRaised("TypeError", pdobj, <<>>)}
    ELSE
    LET lev == IF level.t = "str" THEN ListIndex(indexobj.names, level.s)
               ELSE level.n
    IN
    IF level # LevelNone /\ ~InRange(indexobj.levels, lev)
    THEN {IdxRaised("IndexError", pdobj, <<>>)}
    ELSE
    LET labels == IF level = LevelNone THEN indexobj.levels[1]
                  ELSE PyAt(indexobj.levels, lev)
        calls == <<[obj |-> labels, map_from |-> map_from, map_to |-> map_to,
                    raise_on_missing |-> raise_on_missing]>>
    IN
    { IF o.exc # "none" THEN IdxRaised(o.exc, pdobj, calls)
      ELSE IF level = LevelNone
      THEN IdxReturned(SetAxis(pdobj, axis, FlatIndex(o.out)), pdobj,
                       inplace_arg, calls)
      ELSE LET r == SetLevels(indexobj, lev, o.out) IN
           IF r.err # "none" THEN IdxRaised(r.err, pdobj, calls)
           ELSE IdxReturned(SetAxis(pdobj, axis, r.index), pdobj,
                            inplace_arg, calls)
      : o \in map_pd(self, labels, map_from, map_to, raise_on_missing) }

\* The axes of the pandas objects: flat ones labelled with codes of the
\* table, with a name of the table or with a label in no axis of it, and
\* two-level ones whose first level holds codes
LevelNames == <<"n0", "n1">>

FlatAxes(self) ==
    { FlatIndex(l) : l \in { <<self.df.index[1]>>, <<self.df.index[1], "Z">>,
                            <<self.df.cell["name"][1]>> } }

MultiAxes(self) ==
    { MultiIndex(LevelNames, <<l, <<"p", "q">> >>, <<<<0, 0>>, <<0, 1>> >>) :
        l \in { <<self.df.index[1]>>, <<self.df.cell["name"][1]>> } }

PdObjects(self) ==
    { PdSeries(i) : i \in FlatAxes(self) \cup MultiAxes(self) }
    \cup { PdDataFrame(i, c) : i \in FlatAxes(self) \cup MultiAxes(self),
                              c \in {FlatIndex(<<"v">>)} \cup MultiAxes(self) }

Levels ==
    {LevelNone, LevelOther}
    \cup { LevelInt(i) : i \in {-1, 0, 2} }
    \cup { LevelStr(n) : n \in {"n0", "zz"} }

IndexInit ==
    /\ \E n \in 1..MaxRows :
          lm = LabelMapNew(NameDict(n), "index", "labels", PyNone)
    /\ lmState = "built"
    /\ lmExc = "none"
    /\ yamlCall = NoCall
    /\ ctor = NoCall
    /\ mapCall = NoCall
    /\ mapOut = <<>>
    /\ mapExc = "none"
    /\ mapPrev = <<>>
    /\ ResolveIdle
    /\ LabelfileIdle
    /\ DataprocIdle

\* One call of map_pd_index on a pandas object of the caller
MapPdIndex ==
    /\ lmState = "built"
    /\ idxCall = NoCall
    /\ \E pdobj \in PdObjects(lm), axis \in {"index", "columns"},
          level \in Levels, f \in {"index", "name"}, t \in {"index", "name"},
          r \in BOOLEAN, ip \in BOOLEAN :
          /\ idxCall' = [pdobj |-> pdobj, axis |-> axis, level |-> level,
                         map_from |-> f, map_to |-> t, raise_on_missing |-> r,
                         inplace |-> ip]
          /\ \E o \in map_pd_index(lm, pdobj, f, t, axis, level, r, ip) :
                /\ idxRet' = [exc |-> o.exc, out |-> o.out, same |-> o.same]
                /\ idxObj' = o.caller
                /\ idxMapCalls' = o.calls
    /\ UNCHANGED <<resolveVars, labelVars, managerVars, dataprocVars>>

IndexNext == MapPdIndex

IndexSpec == IndexInit /\ [][IndexNext]_vars

----------------------------------------------------------------------------
(* Claims about map_pd_index *)

\* The labels of the axis the call selects, of the object it was given
SelectedAxis(call) ==
    IF call.axis = "index" THEN call.pdobj.index ELSE call.pdobj.columns

HasSelectedAxis(call) ==
    call.axis = "index" \/ call.pdobj.kind = "DataFrame"

\* C11: map_pd_index raises ValueError when the labels of the selected axis
\* are multi-level and no level is given, and TypeError when a level is
\* given and the labels are not multi-level; in both cases nothing has been
\* translated (map_pd has not been called) and the labels of the object the
\* caller passed are what they were.
C11_LevelChecks ==
    (idxCall # NoCall /\ HasSelectedAxis(idxCall)) =>
        /\ (SelectedAxis(idxCall).multi /\ idxCall.level = LevelNone) =>
              /\ idxRet.exc = "ValueError"
              /\ idxMapCalls = <<>>
              /\ idxObj = idxCall.pdobj
        /\ (~SelectedAxis(idxCall).multi /\ idxCall.level # LevelNone) =>
              /\ idxRet.exc = "TypeError"
              /\ idxMapCalls = <<>>
              /\ idxObj = idxCall.pdobj

\* C11 witness: a call with a level on a flat index has raised
C11_Witness ==
    /\ idxCall # NoCall
    /\ idxCall.axis = "index"
    /\ ~idxCall.pdobj.index.multi
    /\ idxCall.level = LevelInt(0)
    /\ idxRet.exc = "TypeError"

----------------------------------------------------------------------------
(* LabelfileManager and its FrozenDict registries *)

\* A path: a root directory and a name relative to it.
\* yamlfiles_root / _file_path
PathJoin(root, name) == [root |-> root, rel |-> name]

\* dict |= other, on dicts as sequences of entries: the value of a key that
\* is present is replaced where it is, a new key is added at the end
RECURSIVE DictUnion(_, _)
DictUnion(d, other) ==
    IF other = <<>> THEN d
    ELSE LET e == Head(other) IN
         DictUnion(IF HasKey(d, e.k)
                   THEN [i \in 1..Len(d) |-> IF d[i].k = e.k THEN e ELSE d[i]]
                   ELSE Append(d, e),
                   Tail(other))

\* An operation on a FrozenDict: its name, and the key, value or mapping it
\* is given
Op(name, key, val, other) ==
    [name |-> name, key |-> key, val |-> val, other |-> other]

FrozenRaised(e, d) == [exc |-> e, data |-> d]
FrozenReturned(d) == [exc |-> "none", data |-> d]

\* FrozenDict.__setitem__ and FrozenDict.__delitem__
FrozenSetItem(d, key, val) == FrozenRaised("AttributeError", d)
FrozenDelItem(d, key) == FrozenRaised("AttributeError", d)

\* UserDict.__ior__, which FrozenDict inherits: self.data |= other
FrozenIor(d, other) == FrozenReturned(DictUnion(d, other))

\* The operations of a FrozenDict that can alter a mapping.  All but |= are
\* the MutableMapping methods, which go through __setitem__ and __delitem__.
FrozenOp(d, op) ==
    CASE op.name = "setitem" -> FrozenSetItem(d, op.key, op.val)
      [] op.name = "delitem" -> FrozenDelItem(d, op.key)
      [] op.name = "update" ->
            IF op.other = <<>> THEN FrozenReturned(d)
            ELSE FrozenSetItem(d, Head(op.other).k, Head(op.other).v)
      [] op.name = "setdefault" ->
            IF HasKey(d, op.key) THEN FrozenReturned(d)
            ELSE FrozenSetItem(d, op.key, op.val)
      [] op.name = "pop" ->
            IF HasKey(d, op.key) THEN FrozenDelItem(d, op.key)
            ELSE FrozenRaised("KeyError", d)
      [] op.name = "popitem" ->
            IF d = <<>> THEN FrozenRaised("KeyError", d)
            ELSE FrozenDelItem(d, d[1].k)
      [] op.name = "clear" ->
            IF d = <<>> THEN FrozenReturned(d)
            ELSE FrozenDelItem(d, d[1].k)
      [] op.name = "ior" -> FrozenIor(d, op.other)

\* The label files under the root directory: the label sets of each
LabelFiles ==
    [f \in {"g.yaml", "w.yaml"} |->
        IF f = "g.yaml"
        THEN PyDict(<<[k |-> "flows", v |-> NameDict(2)],
                      [k |-> "products", v |-> NameDict(1)]>>)
        ELSE PyDict(<<[k |-> "flows",
                       v |-> PyDict(<<[k |-> "code_type", v |-> PyStr("m")],
                                      [k |-> "data", v |-> NameDict(2)]>>)]>>)]

\* helpers.yaml_utils.read_yaml(path): the parsed content of the file
read_yaml(path) ==
    IF path.rel \in DOMAIN LabelFiles
    THEN [err |-> "none", content |-> LabelFiles[path.rel]]
    ELSE [err |-> "FileNotFoundError", content |-> PyNone]

\* read_labelsets over the entries of yamlfiles from the i-th on
RECURSIVE ReadLabelsetsFrom(_, _)
ReadLabelsetsFrom(yamlfiles, i) ==
    IF i > Len(yamlfiles) THEN [err |-> "none", sets |-> <<>>]
    ELSE LET r == read_yaml(yamlfiles[i].v) IN
         IF r.err # "none" THEN [err |-> r.err, sets |-> <<>>]
         ELSE LET rest == ReadLabelsetsFrom(yamlfiles, i + 1) IN
              IF rest.err # "none" THEN rest
              ELSE [err |-> "none",
                    sets |-> <<[k |-> yamlfiles[i].k,
                                v |-> Keys(r.content.items)]>> \o rest.sets]

read_labelsets(yamlfiles) == ReadLabelsetsFrom(yamlfiles, 1)

\* What `for _file_id, _file_path in yamlfiles` gets from one element of the
\* iteration.  Iterating a sequence of pairs gives the pairs; iterating a
\* dict gives its keys, and a key (a string) unpacks into two variables only
\* when it has two characters.
Unpack(arg, i) ==
    IF arg.kind = "pairs"
    THEN [err |-> "none", id |-> arg.items[i].k, path |-> arg.items[i].v]
    ELSE IF Len(arg.items[i].k) # 2
    THEN [err |-> "ValueError", id |-> <<>>, path |-> ""]
    ELSE [err |-> "none", id |-> <<arg.items[i].k[1]>>,
          path |-> arg.items[i].k[2]]

\* The dict comprehension of __init__, from the i-th element on
RECURSIVE YamlfilesFrom(_, _, _)
YamlfilesFrom(root, arg, i) ==
    IF i > Len(arg.items) THEN [err |-> "none", d |-> <<>>]
    ELSE LET u == Unpack(arg, i) IN
         IF u.err # "none" THEN [err |-> u.err, d |-> <<>>]
         ELSE LET rest == YamlfilesFrom(root, arg, i + 1) IN
              IF rest.err # "none" THEN rest
              ELSE [err |-> "none",
                    d |-> DictUnion(<<[k |-> u.id, v |-> PathJoin(root, u.path)]>>,
                                    rest.d)]

\* LabelfileManager.__init__(yamlfiles_root, yamlfiles)
LabelfileManagerNew(root, arg) ==
    LET y == YamlfilesFrom(root, arg, 1) IN
    IF y.err # "none" THEN [exc |-> y.err, mgr |-> NoCall]
    ELSE LET l == read_labelsets(y.d) IN
         IF l.err # "none" THEN [exc |-> l.err, mgr |-> NoCall]
         ELSE [exc |-> "none",
               mgr |-> [yamlfiles |-> y.d, labelsets |-> l.sets]]

\* get_label_map(file_id, labelset): LabelMap.from_yaml(yamlfile=
\* self.yamlfiles[file_id], key=labelset), with from_yaml's defaults
\* orient='columns' and read_attrs=True
get_label_map(self, file_id, labelset) ==
    IF ~HasKey(self.yamlfiles, file_id) THEN {[exc |-> "KeyError", lm |-> NoCall]}
    ELSE LET r == read_yaml(Get(self.yamlfiles, file_id)) IN
         IF r.err # "none" THEN {[exc |-> r.err, lm |-> NoCall]}
         ELSE IF ~HasKey(r.content.items, labelset)
         THEN {[exc |-> "KeyError", lm |-> NoCall]}
         ELSE Construct(CtorArgs(Get(r.content.items, labelset), labelset,
                                 "columns", TRUE))

\* File identifiers (strings, as their characters) and the files they name
FileIds == << <<"g", "h", "g">>, <<"w", "e", "b">>, <<"a", "b">>, <<"n", "o">> >>
FileNames == <<"g.yaml", "w.yaml", "g.yaml", "none.yaml">>
FileEntries == { [k |-> FileIds[i], v |-> FileNames[i]] : i \in 1..Len(FileIds) }

\* The `yamlfiles` arguments: a dict, or a sequence of (id, path) pairs, with
\* up to MaxLen entries of distinct ids
ManagerArgs ==
    { [kind |-> kd, items |-> its] :
        kd \in {"dict", "pairs"},
        its \in UNION { { f \in [1..n -> FileEntries] :
                            \A i, j \in 1..n : i # j => f[i] # f[j] } :
                        n \in 0..MaxLen } }

RootDir == "labels"

ManagerInit ==
    /\ ManagerIdle
    /\ IndexIdle
    /\ LabelIdle
    /\ ResolveIdle
    /\ DataprocIdle

\* The constructor call
NewManager ==
    /\ mgrArg = NoCall
    /\ \E arg \in ManagerArgs :
          /\ mgrArg' = arg
          /\ \E r \in {LabelfileManagerNew(RootDir, arg)} :
                /\ mgr' = r.mgr
                /\ mgrBuilt' = r.mgr
                /\ mgrExc' = r.exc
    /\ UNCHANGED <<mgrOp, labelMaps, indexVars, resolveVars, labelVars,
                   dataprocVars>>

NewKey == <<"n", "e", "w">>

\* The value a caller tries to put into a registry
NewValue(reg) ==
    IF reg = "yamlfiles" THEN PathJoin(RootDir, "new.yaml") ELSE <<"new">>

\* The keys a caller names: the first one of the registry and one it has not
OpKeys(d) == (IF d = <<>> THEN {} ELSE {d[1].k}) \cup {NewKey}

RegistryOps(reg, d) ==
    { Op(n, k, NewValue(reg), <<>>) :
        n \in {"setitem", "delitem", "setdefault", "pop"}, k \in OpKeys(d) }
    \cup { Op(n, <<>>, NewValue(reg), <<>>) : n \in {"popitem", "clear"} }
    \cup { Op(n, <<>>, NewValue(reg), o) :
             n \in {"update", "ior"},
             o \in {<<>>} \cup { <<[k |-> k, v |-> NewValue(reg)]>> : k \in OpKeys(d) } }

\* A mapping operation on one of the registries of the manager
RegistryOp ==
    /\ mgr # NoCall
    /\ \E reg \in {"yamlfiles", "labelsets"} :
       \E op \in RegistryOps(reg, mgr[reg]) :
       \E r \in {FrozenOp(mgr[reg], op)} :
          /\ mgr' = [mgr EXCEPT ![reg] = r.data]
          /\ mgrOp' = [name |-> op.name, exc |-> r.exc]
    /\ UNCHANGED <<mgrArg, mgrExc, mgrBuilt, labelMaps, indexVars, resolveVars,
                   labelVars, dataprocVars>>

\* A get_label_map call; the instance it returns is a new object, known by
\* its place in labelMaps.  Two calls are enough to compare instances.
GetLabelMap ==
    /\ mgr # NoCall
    /\ Len(labelMaps) \in {0, 1}
    /\ \E file_id \in OpKeys(mgr.yamlfiles), labelset \in {"flows", "products"} :
       \E o \in get_label_map(mgr, file_id, labelset) :
          /\ labelMaps' = Append(labelMaps, [file_id |-> file_id,
                                             labelset |-> labelset,
                                             exc |-> o.exc, lm |-> o.lm])
          /\ mgrOp' = [name |-> "get_label_map", exc |-> o.exc]
    /\ UNCHANGED <<mgrArg, mgr, mgrExc, mgrBuilt, indexVars, resolveVars,
                   labelVars, dataprocVars>>

ManagerNext == NewManager \/ RegistryOp \/ GetLabelMap

ManagerSpec == ManagerInit /\ [][ManagerNext]_vars

----------------------------------------------------------------------------
(* Claims about LabelfileManager *)

\* C12: once the manager is constructed, no mapping operation on yamlfiles
\* or labelsets (item assignment, deletion, update, setdefault, pop, popitem,
\* clear, |=) and no get_label_map call changes the contents of either
\* registry: they are what they were when the constructor returned.
C12_RegistriesFrozen ==
    (mgr # NoCall) =>
        /\ mgr.yamlfiles = mgrBuilt.yamlfiles
        /\ mgr.labelsets = mgrBuilt.labelsets

\* Every file the argument names exists
AllFilesExist(arg) ==
    \A i \in 1..Len(arg.items) : arg.items[i].v \in DOMAIN LabelFiles

\* C13: constructing the manager from a mapping {id: relative_path} succeeds
\* and gives yamlfiles[id] = root/relative_path for exactly the given ids and
\* labelsets[id] = the top-level keys of that file; no LabelMap exists before
\* get_label_map is called.
C13_ConstructFromMapping ==
    (mgrArg # NoCall /\ mgrArg.kind = "dict" /\ AllFilesExist(mgrArg)) =>
        /\ mgrExc = "none"
        /\ mgrBuilt # NoCall
        /\ {e.k : e \in {mgrBuilt.yamlfiles[i] : i \in 1..Len(mgrBuilt.yamlfiles)}}
              = {mgrArg.items[i].k : i \in 1..Len(mgrArg.items)}
        /\ \A i \in 1..Len(mgrArg.items) :
              /\ Get(mgrBuilt.yamlfiles, mgrArg.items[i].k)
                    = PathJoin(RootDir, mgrArg.items[i].v)
              /\ Get(mgrBuilt.labelsets, mgrArg.items[i].k)
                    = Keys(LabelFiles[mgrArg.items[i].v].items)
        /\ (mgrOp = NoCall) => labelMaps = <<>>

----------------------------------------------------------------------------
(* DataLoader.load_raw_dataset *)

\* The data representation types, and None
DataReprTypes == {"PD", "XR", "NP", "CUST"}

\* self.data_processor: one callable, or a mapping from representation
\* types to callables
Callable == [mapping |-> FALSE, keys |-> {}]
ProcessorMap(keys) == [mapping |-> TRUE, keys |-> keys]

\* The keyword arguments a step gets: the dictionary given for it, or a copy
\* of **kwargs when none is given
ResolveKwargs(given, kwargs) == IF given = "None" THEN kwargs ELSE given

\* What follows a step: the exception of a step that raised ends the call
AfterStepIgnoring(e, next) == next
AfterStep(e, next) == IF e = "none" THEN next ELSE "raised"

\* The lookup that finds an entry whatever the key
HasProcessorAlways(processor, data_repr) == TRUE

\* Whether self.data_processor[data_repr] finds an entry
HasProcessor(processor, data_repr) == data_repr \in processor.keys

\* The arguments of the KeyError a dict raises for a missing key
KeyErrorArgs(key) == <<key>>

\* How the selection of the processor ends: with an exception, or with the
\* processor to call (the callable itself, or the entry of the mapping)
SelectProcessor(processor, data_repr) ==
    IF processor.mapping THEN
        IF data_repr = "None"
        THEN [exc |-> "ValueError", names |-> "", fn |-> ""]
        ELSE IF ~HasProcessor(processor, data_repr)
        THEN LET args == KeyErrorArgs(data_repr) IN
             IF Len(args) # 1 \/ args[1] # data_repr
             THEN [exc |-> "KeyError", names |-> "", fn |-> ""]
             ELSE [exc |-> "KeyError", names |-> data_repr, fn |-> ""]
        ELSE [exc |-> "none", names |-> "", fn |-> data_repr]
    ELSE [exc |-> "none", names |-> "", fn |-> "callable"]

\* What the methods of the subclass can do: return one of two values, or
\* raise
PathResults == {"pathsA", "pathsB"}
RawResults == {"rawA", "rawB"}
ProcessedResults == {"outA", "outB"}

Outcomes(results, e) ==
    { [exc |-> "none", out |-> r] : r \in results } \cup { [exc |-> e, out |-> ""] }

LdReturn(e, out, names) == [exc |-> e, out |-> out, names |-> names]

LoadInit ==
    /\ LoadIdle
    /\ ProcessIdle
    /\ IntervalIdle
    /\ ConfigIdle
    /\ LabelfileIdle
    /\ LabelIdle
    /\ ResolveIdle

\* load_raw_dataset is called: the defaults of data_config and of the
\* keyword arguments are resolved
LoadRawDataset ==
    /\ ldPc = "idle"
    /\ \E processor \in {Callable} \cup { ProcessorMap(k) : k \in SUBSET {"PD", "XR"} },
          data_repr \in {"None"} \cup DataReprTypes,
          data_config \in {"None", "cfg"},
          getter_kwargs \in {"None", "getter"},
          kwargs \in {"empty", "kw"} :
          ldCall' = [processor |-> processor, data_repr |-> data_repr,
                     data_config |-> IF data_config = "None" THEN "self.data_config"
                                     ELSE data_config,
                     file_getter_kwargs |-> ResolveKwargs(getter_kwargs, kwargs),
                     data_processor_kwargs |-> ResolveKwargs("None", kwargs)]
    /\ ldPc' = "paths"
    /\ UNCHANGED <<ldLog, ldRet, processVars, intervalVars, configVars,
                   labelfileVars, labelVars, resolveVars>>

\* self.get_raw_datafile_paths(data_config=..., **file_getter_kwargs)
GetRawDatafilePaths ==
    /\ ldPc = "paths"
    /\ \E o \in Outcomes(PathResults, "FileNotFoundError") :
          /\ ldLog' = Append(ldLog, [step |-> "get_raw_datafile_paths",
                                     arg |-> ldCall.file_getter_kwargs,
                                     data_config |-> ldCall.data_config,
                                     exc |-> o.exc, out |-> o.out])
          /\ ldPc' = AfterStep(o.exc, "read")
          /\ ldRet' = IF AfterStep(o.exc, "read") = "raised"
                      THEN LdReturn(o.exc, "", "") ELSE ldRet
    /\ UNCHANGED <<ldCall, processVars, intervalVars, configVars,
                   labelfileVars, labelVars, resolveVars>>

\* self.read_raw_datafiles(datafiles=data_file_paths, data_config=...)
ReadRawDatafiles ==
    /\ ldPc = "read"
    /\ \E o \in Outcomes(RawResults, "OSError") :
          /\ ldLog' = Append(ldLog, [step |-> "read_raw_datafiles",
                                     arg |-> ldLog[Len(ldLog)].out,
                                     data_config |-> ldCall.data_config,
                                     exc |-> o.exc, out |-> o.out])
          /\ ldPc' = AfterStep(o.exc, "process")
          /\ ldRet' = IF AfterStep(o.exc, "process") = "raised"
                      THEN LdReturn(o.exc, "", "") ELSE ldRet
    /\ UNCHANGED <<ldCall, processVars, intervalVars, configVars,
                   labelfileVars, labelVars, resolveVars>>

\* The processor is selected and called, and its result returned
ProcessData ==
    /\ ldPc = "process"
    /\ \E sel \in {SelectProcessor(ldCall.processor, ldCall.data_repr)} :
          IF sel.exc # "none"
          THEN /\ ldRet' = LdReturn(sel.exc, "", sel.names)
               /\ ldPc' = "raised"
               /\ UNCHANGED ldLog
          ELSE \E o \in Outcomes(ProcessedResults, "ValueError") :
               /\ ldLog' = Append(ldLog, [step |-> "process_data",
                                          arg |-> ldLog[Len(ldLog)].out,
                                          data_config |-> ldCall.data_config,
                                          exc |-> o.exc, out |-> o.out])
               /\ ldPc' = AfterStep(o.exc, "returned")
               /\ ldRet' = LdReturn(o.exc, o.out, "")
    /\ UNCHANGED <<ldCall, processVars, intervalVars, configVars,
                   labelfileVars, labelVars, resolveVars>>

LoadNext ==
    LoadRawDataset \/ GetRawDatafilePaths \/ ReadRawDatafiles \/ ProcessData

LoadSpec == LoadInit /\ [][LoadNext]_vars

----------------------------------------------------------------------------
(* Claims about load_raw_dataset *)

StepOrder == <<"get_raw_datafile_paths", "read_raw_datafiles", "process_data">>

\* C14: load_raw_dataset calls get_raw_datafile_paths, read_raw_datafiles
\* with exactly the returned paths, and the processor with exactly the
\* returned raw data, each at most once and in that order, and returns the
\* processor's result; when a step raises, the call ends with that
\* exception, no later step runs and none runs again.
C14_StepsInOrder ==
    /\ Len(ldLog) <= Len(StepOrder)
    /\ \A i \in 1..Len(ldLog) :
          /\ ldLog[i].step = StepOrder[i]
          /\ (i > 1) => /\ ldLog[i - 1].exc = "none"
                        /\ ldLog[i].arg = ldLog[i - 1].out
          /\ (ldLog[i].exc # "none") =>
                /\ i = Len(ldLog)
                /\ ldPc = "raised"
                /\ ldRet.exc = ldLog[i].exc
    /\ (ldPc = "returned") =>
          /\ Len(ldLog) = Len(StepOrder)
          /\ ldRet.exc = "none"
          /\ ldRet.out = ldLog[Len(StepOrder)].out

\* C14 witness: a call whose read step raised, after the paths were found
C14_Witness ==
    /\ ldPc = "raised"
    /\ Len(ldLog) = 2
    /\ ldLog[1].out = "pathsB"
    /\ ldLog[2].arg = "pathsB"
    /\ ldRet.exc = "OSError"

\* The processor has been invoked
ProcessorInvoked == \E i \in 1..Len(ldLog) : ldLog[i].step = "process_data"

\* The call has come to the selection of the processor and is over
PastSelection == Len(ldLog) >= 2 /\ ldLog[2].exc = "none" /\
                 ldPc \in {"returned", "raised"}

----------------------------------------------------------------------------
(* PandasDataLoader.process_raw_df *)

\* A table (DataFrame): its column names in order, the dtype and the values
\* of each column, and its row labels.  A value is the sequence of what made
\* it: where it comes from, then the adjustments applied to it.  A row label
\* is the tuple of the values of the index columns (the position, for the
\* default index), and `names` the names of the index columns.
RowTags == <<"r1", "r2", "r3", "r4">>

RawColumns == <<"a", "b">>

RawTable(n) ==
    [columns |-> RawColumns,
     dtype |-> [c \in {"a", "b"} |-> "object"],
     cell |-> [c \in {"a", "b"} |-> [i \in 1..n |-> <<c, RowTags[i]>>]],
     index |-> [names |-> <<>>,
                labels |-> [i \in 1..n |-> << <<PosLabels[i]>> >>]]]

NRows(t) == Len(t.index.labels)

\* DataFrame.astype(dtypes) for a mapping of column names to dtypes: a new
\* table with the mapped columns converted and the others as they were; a
\* key that is no column is a KeyError
Astype(t, dtypes) ==
    IF \E i \in 1..Len(dtypes) : ~Has(t.columns, dtypes[i].k)
    THEN [err |-> "KeyError", t |-> t]
    ELSE [err |-> "none",
          t |-> [t EXCEPT !.dtype =
                    [c \in DOMAIN t.dtype |->
                        IF HasKey(dtypes, c) THEN Get(dtypes, c) ELSE t.dtype[c]]]]

\* Whether astype gives a new object (it does) or the object it was called on
AstypeInPlace == FALSE
AstypeCopies == TRUE

\* A column adjustment: a pure function of the column it is given
ColumnAdjust(fn, series) == [i \in 1..Len(series) |-> Append(series[i], fn)]

\* The adjustments of a list applied last to first
RECURSIVE ApplyReversed(_, _)
ApplyReversed(fns, series) ==
    IF fns = <<>> THEN series
    ELSE ColumnAdjust(Head(fns), ApplyReversed(Tail(fns), series))

\* for _col_adjustment in _col_adjustments: the adjustments in list order
RECURSIVE ApplyAll(_, _)
ApplyAll(fns, series) ==
    IF fns = <<>> THEN series
    ELSE ApplyAll(Tail(fns), ColumnAdjust(Head(fns), series))

\* A global adjustment: "I" returns the table it is given; any other one
\* returns a new table, every value adjusted
GlobalReturnsArgument(fn) == fn = "I"

GlobalAdjust(fn, t) ==
    [t EXCEPT !.cell = [c \in DOMAIN t.cell |-> ColumnAdjust(fn, t.cell[c])]]

\* DataFrame.set_index(cols): a new table with the columns `cols` as its row
\* labels and no longer among its columns
SetIndex(t, cols) ==
    IF \E i \in 1..Len(cols) : ~Has(t.columns, cols[i])
    THEN [err |-> "KeyError", t |-> t]
    ELSE [err |-> "none",
          t |-> [columns |-> SelectSeq(t.columns, LAMBDA c : ~Has(cols, c)),
                 dtype |-> [c \in {x \in DOMAIN t.dtype : ~Has(cols, x)} |-> t.dtype[c]],
                 cell |-> [c \in {x \in DOMAIN t.cell : ~Has(cols, x)} |-> t.cell[c]],
                 index |-> [names |-> cols,
                            labels |-> [i \in 1..NRows(t) |->
                                          [j \in 1..Len(cols) |-> t.cell[cols[j]][i]]]]]]

\* The state of a run of process_raw_df: the objects, the one `_df` names,
\* the stages run so far and the exception, if any
Run(h, df, log, err) == [heap |-> h, df |-> df, log |-> log, err |-> err]

Logged(stage, name, t) == [stage |-> stage, name |-> name, df |-> t]

\* _df = raw_data.astype(dtypes)
DtypeStage(raw, dtypes) ==
    LET r == Astype(raw, dtypes) IN
    IF r.err # "none" THEN Run(<<raw>>, 1, <<>>, r.err)
    ELSE IF AstypeCopies
    THEN Run(<<raw, r.t>>, 2, <<Logged("dtype", "astype", r.t)>>, "none")
    ELSE Run(<<r.t>>, 1, <<Logged("dtype", "astype", r.t)>>, "none")

\* for _global_adjustment in adjustments: _df = _global_adjustment(_df)
RECURSIVE GlobalStage(_, _, _)
GlobalStage(run, stage, fns) ==
    IF fns = <<>> THEN run
    ELSE LET fn == Head(fns)
             t == GlobalAdjust(fn, run.heap[run.df])
         IN  GlobalStage(
               IF GlobalReturnsArgument(fn)
               THEN Run(run.heap, run.df,
                        Append(run.log, Logged(stage, fn, run.heap[run.df])), "none")
               ELSE Run(Append(run.heap, t), Len(run.heap) + 1,
                        Append(run.log, Logged(stage, fn, t)), "none"),
               stage, Tail(fns))

\* One entry of column_adjustments: every adjustment of the list assigned to
\* the column of `_df` in turn, then _df = _df.copy(deep=False)
ColumnEntry(run, colname, fns) ==
    IF fns # <<>> /\ ~Has(run.heap[run.df].columns, colname)
    THEN Run(run.heap, run.df, run.log, "KeyError")
    ELSE LET old == run.heap[run.df]
             new == IF fns = <<>> THEN old
                    ELSE [old EXCEPT !.cell[colname] = ApplyAll(fns, old.cell[colname])]
         IN  Run(Append([run.heap EXCEPT ![run.df] = new], new),
                 Len(run.heap) + 1,
                 Append(run.log, Logged("column", colname, new)), "none")

\* for _colname, _col_adjustments in column_adjustments.items()
RECURSIVE ColumnStage(_, _)
ColumnStage(run, entries) ==
    IF entries = <<>> THEN run
    ELSE LET r == ColumnEntry(run, Head(entries).k, Head(entries).v) IN
         IF r.err # "none" THEN r ELSE ColumnStage(r, Tail(entries))

\* if index_cols: _df = _df.set_index(index_cols)
IndexStage(run, index_cols) ==
    IF index_cols = <<>>
    THEN Run(run.heap, run.df,
             Append(run.log, Logged("index", "keep", run.heap[run.df])), "none")
    ELSE LET r == SetIndex(run.heap[run.df], index_cols) IN
         IF r.err # "none" THEN Run(run.heap, run.df, run.log, r.err)
         ELSE Run(Append(run.heap, r.t), Len(run.heap) + 1,
                  Append(run.log, Logged("index", "set_index", r.t)), "none")

\* The stages in another order: the column adjustments before the global
\* pre-adjustments
NextStageColumnsFirst(stage) ==
    CASE stage = "dtype" -> "column"
      [] stage = "column" -> "pre"
      [] stage = "pre" -> "post"
      [] stage = "post" -> "index"
      [] stage = "index" -> "returned"

\* The order of the stages in process_raw_df
NextStage(stage) ==
    CASE stage = "dtype" -> "pre"
      [] stage = "pre" -> "column"
      [] stage = "column" -> "post"
      [] stage = "post" -> "index"
      [] stage = "index" -> "returned"

\* A value of column_adjustments as given to __init__: a list of callables,
\* or one callable
AdjList(fns) == [scalar |-> FALSE, fns |-> fns]
AdjScalar(fn) == [scalar |-> TRUE, fns |-> <<fn>>]

\* __init__: a value that is not a sequence becomes a one-element list
NormalizeAdjustments(column_adjustments) ==
    [i \in 1..Len(column_adjustments) |->
        [k |-> column_adjustments[i].k, v |-> column_adjustments[i].v.fns]]

\* PandasDataLoader.__init__: the attributes process_raw_df reads (None
\* given for an argument leaves an empty container)
PandasDataLoaderNew(dtypes, index_cols, pre, cols, post) ==
    [source_data_dtypes |-> dtypes,
     data_index_cols |-> index_cols,
     global_preadjustments |-> pre,
     column_adjustments |-> NormalizeAdjustments(cols),
     global_postadjustments |-> post,
     given |-> cols]

DtypeMaps ==
    { <<>>, <<[k |-> "a", v |-> "int"]>>,
      <<[k |-> "b", v |-> "str"], [k |-> "a", v |-> "int"]>>,
      <<[k |-> "zz", v |-> "int"]>> }

PreLists == { <<>>, <<"P">>, <<"I", "P">> }
PostLists == { <<>>, <<"Q">>, <<"Q", "I">> }
IndexLists == { <<>>, <<"a">>, <<"b", "a">>, <<"zz">> }

AdjValues ==
    { AdjList(l) : l \in { <<>>, <<"f">>, <<"g">>, <<"f", "g">>, <<"g", "f">> } }
    \cup { AdjScalar("f") }

\* The column_adjustments mappings: no entry, one entry, or entries for both
\* columns in either order
ColumnMaps ==
    { <<>>, <<[k |-> "zz", v |-> AdjList(<<"f">>)]>> }
    \cup { <<[k |-> c, v |-> v]>> : c \in {"a", "b"}, v \in AdjValues }
    \cup { <<[k |-> o[1], v |-> v], [k |-> o[2], v |-> w]>> :
             o \in {<<"a", "b">>, <<"b", "a">>}, v \in AdjValues, w \in AdjValues }

ProcessInit ==
    /\ ProcessIdle
    /\ LoadIdle
    /\ IntervalIdle
    /\ ConfigIdle
    /\ LabelfileIdle
    /\ LabelIdle
    /\ ResolveIdle

\* The state after a stage
Continue(run, stage) ==
    /\ heap' = run.heap
    /\ prDf' = run.df
    /\ prLog' = run.log
    /\ prExc' = run.err
    /\ prPc' = IF run.err # "none" THEN "raised" ELSE NextStage(stage)

Current == Run(heap, prDf, prLog, "none")

\* process_raw_df(raw_data, caller, data_config) is called on a raw table
\* by a loader built with the given arguments: the dtype conversion
ProcessRawDf ==
    /\ prPc = "idle"
    /\ \E n \in 1..MaxRows, dtypes \in DtypeMaps, index_cols \in IndexLists,
          pre \in PreLists, cols \in ColumnMaps, post \in PostLists :
          /\ prCall' = [raw |-> RawTable(n),
                        caller |-> PandasDataLoaderNew(dtypes, index_cols, pre,
                                                       cols, post)]
          /\ Continue(DtypeStage(RawTable(n), dtypes), "dtype")
    /\ UNCHANGED <<loadVars, intervalVars, configVars, labelfileVars,
                   labelVars, resolveVars>>

PreAdjustments ==
    /\ prPc = "pre"
    /\ Continue(GlobalStage(Current, "pre", prCall.caller.global_preadjustments),
                "pre")
    /\ UNCHANGED <<prCall, loadVars, intervalVars, configVars, labelfileVars,
                   labelVars, resolveVars>>

ColumnAdjustments ==
    /\ prPc = "column"
    /\ Continue(ColumnStage(Current, prCall.caller.column_adjustments), "column")
    /\ UNCHANGED <<prCall, loadVars, intervalVars, configVars, labelfileVars,
                   labelVars, resolveVars>>

PostAdjustments ==
    /\ prPc = "post"
    /\ Continue(GlobalStage(Current, "post", prCall.caller.global_postadjustments),
                "post")
    /\ UNCHANGED <<prCall, loadVars, intervalVars, configVars, labelfileVars,
                   labelVars, resolveVars>>

\* The indexing stage, and the return of _df
Indexing ==
    /\ prPc = "index"
    /\ Continue(IndexStage(Current, prCall.caller.data_index_cols), "index")
    /\ UNCHANGED <<prCall, loadVars, intervalVars, configVars, labelfileVars,
                   labelVars, resolveVars>>

ProcessNext ==
    ProcessRawDf \/ PreAdjustments \/ ColumnAdjustments \/ PostAdjustments
    \/ Indexing

ProcessSpec == ProcessInit /\ [][ProcessNext]_vars

----------------------------------------------------------------------------
(* Claims about process_raw_df *)

\* What a run logs for a loader, stage by stage
ExpectedStages(caller) ==
    << <<"dtype", "astype">> >>
    \o [i \in 1..Len(caller.global_preadjustments) |->
           <<"pre", caller.global_preadjustments[i]>>]
    \o [i \in 1..Len(caller.given) |-> <<"column", caller.given[i].k>>]
    \o [i \in 1..Len(caller.global_postadjustments) |->
           <<"post", caller.global_postadjustments[i]>>]
    \o << <<"index", IF caller.data_index_cols = <<>> THEN "keep"
                     ELSE "set_index">> >>

StagesRun == [i \in 1..Len(prLog) |-> <<prLog[i].stage, prLog[i].name>>]

\* The adjustments that return a new value, of a list of global adjustments
Effective(fns) == SelectSeq(fns, LAMBDA fn : fn # "I")

\* The adjustments the column `c` is given, as a list
OwnList(caller, c) ==
    IF HasKey(caller.given, c) THEN Get(caller.given, c).fns ELSE <<>>

\* The value of row i of column c of the raw table after the stages of the
\* claimed order: pre-adjustments, own column adjustments, post-adjustments
StagedValue(call, c, i) ==
    call.raw.cell[c][i]
    \o Effective(call.caller.global_preadjustments)
    \o OwnList(call.caller, c)
    \o Effective(call.caller.global_postadjustments)

\* C16: process_raw_df runs its stages in the order dtype conversion (mapped
\* columns converted, the others and all values unchanged), global
\* pre-adjustments left to right, column adjustments, global
\* post-adjustments left to right, indexing; indexing makes the configured
\* columns the row labels when the list is not empty and leaves the row
\* labels as they were when it is empty.
C16_StageOrder ==
    (prCall # NoCall) =>
        /\ Len(StagesRun) <= Len(ExpectedStages(prCall.caller))
        /\ StagesRun = SubSeq(ExpectedStages(prCall.caller), 1, Len(StagesRun))
        /\ (prLog # <<>>) =>
              /\ prLog[1].df.cell = prCall.raw.cell
              /\ \A c \in DOMAIN prCall.raw.dtype :
                    prLog[1].df.dtype[c] =
                       IF HasKey(prCall.caller.source_data_dtypes, c)
                       THEN Get(prCall.caller.source_data_dtypes, c)
                       ELSE prCall.raw.dtype[c]
        /\ (prPc = "returned") =>
              /\ StagesRun = ExpectedStages(prCall.caller)
              /\ \A c \in DOMAIN heap[prDf].cell : \A i \in 1..NRows(prCall.raw) :
                    heap[prDf].cell[c][i] = StagedValue(prCall, c, i)
              /\ IF prCall.caller.data_index_cols = <<>>
                 THEN /\ heap[prDf].index = prCall.raw.index
                      /\ heap[prDf].columns = prCall.raw.columns
                 ELSE /\ heap[prDf].index.names = prCall.caller.data_index_cols
                      /\ \A j \in 1..Len(prCall.caller.data_index_cols) :
                            /\ ~Has(heap[prDf].columns, prCall.caller.data_index_cols[j])
                            /\ \A i \in 1..NRows(prCall.raw) :
                                  heap[prDf].index.labels[i][j] =
                                     StagedValue(prCall, prCall.caller.data_index_cols[j], i)

\* C16 witness: a run with adjustments at every stage and two index
\* columns has returned
C16_Witness ==
    /\ prPc = "returned"
    /\ prCall.caller.global_preadjustments = <<"I", "P">>
    /\ Len(prCall.caller.given) = 2
    /\ prCall.caller.global_postadjustments = <<"Q", "I">>
    /\ prCall.caller.data_index_cols = <<"b", "a">>
    /\ Len(prCall.caller.source_data_dtypes) = 1
    /\ heap[prDf].columns = <<>>

\* The column stage is over
ColumnsDone == prPc \in {"post", "index", "returned"}

\* The table before and after the column stage
BeforeColumns == prLog[1 + Len(prCall.caller.global_preadjustments)].df
AfterColumns ==
    prLog[1 + Len(prCall.caller.global_preadjustments) + Len(prCall.caller.given)].df

C18_RawUntouched ==
    (prCall # NoCall) =>
        /\ heap[1] = prCall.raw
        /\ (prPc = "returned") => prDf # 1

\* C18 witness: a run with an empty dtype map, no global adjustment, no
\* index column and an adjustment of column a has returned
C18_Witness ==
    /\ prPc = "returned"
    /\ prCall.caller.source_data_dtypes = <<>>
    /\ prCall.caller.global_preadjustments = <<>>
    /\ prCall.caller.global_postadjustments = <<>>
    /\ prCall.caller.data_index_cols = <<>>
    /\ prCall.caller.given = <<[k |-> "a", v |-> AdjList(<<"f">>)]>>
    /\ heap[prDf].cell["a"][1] = <<"a", "r1", "f">>

----------------------------------------------------------------------------
(* PandasDataLoader.set_intervals *)

\* An interval value
Interval(left, right, closed) == [left |-> left, right |-> right, closed |-> closed]

\* The closedness pandas uses when it is given none
PandasDefaultClosed == "right"

ClosedSpecs == {"left", "right", "both", "neither"}

\* The argument `closed`: None, one str, or a mapping from target to str
ClosedNone == [t |-> "None", s |-> "", items |-> <<>>]
ClosedStr(str) == [t |-> "str", s |-> str, items |-> <<>>]
ClosedMap(entries) == [t |-> "map", s |-> "", items |-> entries]

\* interval_cols.update(kwargs), interval_cols being kwargs itself when None
\* is given
EffectiveCols(interval_cols, kwargs) ==
    IF interval_cols = PyNone THEN kwargs ELSE DictUnion(interval_cols.items, kwargs)

\* pd.IntervalIndex.from_arrays(left, right, closed): None stands for the
\* default, another value than the four names is a ValueError, and so is a
\* left value greater than the right value
FromArrays(left, right, closed) ==
    LET c == IF closed = "None" THEN PandasDefaultClosed ELSE closed IN
    IF c \notin ClosedSpecs THEN [err |-> "ValueError", vals |-> <<>>]
    ELSE IF \E i \in 1..Len(left) : left[i] > right[i]
    THEN [err |-> "ValueError", vals |-> <<>>]
    ELSE [err |-> "none",
          vals |-> [i \in 1..Len(left) |-> Interval(left[i], right[i], c)]]

\* The new columns, for the entries of the mapping from the i-th on
RECURSIVE NewCols(_, _, _, _)
NewCols(df, cols, closed, i) ==
    IF i > Len(cols) THEN [err |-> "none", cols |-> <<>>]
    ELSE LET target == cols[i].k
             source == cols[i].v
         IN
         IF ~Has(df.columns, source[1]) \/ ~Has(df.columns, source[2])
         THEN [err |-> "KeyError", cols |-> <<>>]
         ELSE IF ~HasKey(closed, target)
         THEN [err |-> "KeyError", cols |-> <<>>]
         ELSE LET a == FromArrays(df.cell[source[1]], df.cell[source[2]],
                                  Get(closed, target))
              IN
              IF a.err # "none" THEN [err |-> a.err, cols |-> <<>>]
              ELSE LET rest == NewCols(df, cols, closed, i + 1) IN
                   IF rest.err # "none" THEN rest
                   ELSE [err |-> "none",
                         cols |-> <<[k |-> target, v |-> a.vals]>> \o rest.cols]

\* dropcols with drop ignored
DropColsNever(drop, cols) == {}

\* dropcols: the left and right columns of every entry, or none
DropCols(drop, cols) ==
    IF drop THEN {cols[i].v[1] : i \in 1..Len(cols)} \cup {cols[i].v[2] : i \in 1..Len(cols)}
    ELSE {}

\* pd.concat([df.drop(columns=dropcols), *_newcols], axis=1)
ConcatColumns(df, dropcols, newcols) ==
    [columns |-> SelectSeq(df.columns, LAMBDA c : c \notin dropcols) \o Keys(newcols),
     cell |-> [c \in ({df.columns[i] : i \in 1..Len(df.columns)} \ dropcols)
                     \cup {newcols[i].k : i \in 1..Len(newcols)} |->
                 IF HasKey(newcols, c) THEN Get(newcols, c) ELSE df.cell[c]],
     nrows |-> df.nrows]

IvRaised(e) == [exc |-> e, out |-> NoCall]
IvReturned(t) == [exc |-> "none", out |-> t]

\* set_intervals(df, interval_cols, closed, drop, **kwargs)
set_intervals(df, interval_cols, closed, drop, kwargs) ==
    LET cols == EffectiveCols(interval_cols, kwargs) IN
    IF closed.t = "str" /\ Len(cols) > 1 THEN IvRaised("ValueError")
    ELSE LET closedMap == IF closed.t = "map" THEN closed.items
                          ELSE [i \in 1..Len(cols) |->
                                  [k |-> cols[i].k,
                                   v |-> IF closed.t = "None" THEN "None" ELSE closed.s]]
             new == NewCols(df, cols, closedMap, 1)
         IN  IF new.err # "none" THEN IvRaised(new.err)
             ELSE IvReturned(ConcatColumns(df, DropCols(drop, cols), new.cols))

\* The table of the calls: limits lo <= hi <= hi2, a column dn below lo, and
\* a column c that is no limit
IntervalColumns == <<"lo", "hi", "c", "hi2", "dn">>

IntervalTable(n) ==
    [columns |-> IntervalColumns,
     cell |-> [c \in {"lo", "hi", "c", "hi2", "dn"} |->
                 [i \in 1..n |->
                    CASE c = "lo" -> 10 * (i - 1)
                      [] c = "hi" -> 10 * i
                      [] c = "hi2" -> 10 * i + 1
                      [] c = "dn" -> 0 - i
                      [] c = "c" -> i]],
     nrows |-> n]

Pair(l, r) == <<l, r>>

IntervalMaps ==
    { <<>>,
      <<[k |-> "t", v |-> Pair("lo", "hi")]>>,
      <<[k |-> "u", v |-> Pair("hi", "hi2")]>>,
      <<[k |-> "t", v |-> Pair("lo", "hi")], [k |-> "u", v |-> Pair("lo", "hi2")]>>,
      <<[k |-> "u", v |-> Pair("hi", "hi2")], [k |-> "t", v |-> Pair("lo", "hi")]>>,
      <<[k |-> "t", v |-> Pair("lo", "dn")]>>,
      <<[k |-> "t", v |-> Pair("lo", "zz")]>> }

ClosedArgs ==
    {ClosedNone, ClosedStr("bad")}
    \cup { ClosedStr(c) : c \in ClosedSpecs }
    \cup { ClosedMap(<<[k |-> "t", v |-> "left"]>>),
           ClosedMap(<<[k |-> "u", v |-> "both"], [k |-> "t", v |-> "neither"]>>) }

IntervalInit ==
    /\ IntervalIdle
    /\ LoadIdle
    /\ ProcessIdle
    /\ ConfigIdle
    /\ LabelfileIdle
    /\ LabelIdle
    /\ ResolveIdle

SetIntervals ==
    /\ ivCall = NoCall
    /\ \E n \in 1..MaxRows, ic \in {PyNone} \cup { PyDict(m) : m \in IntervalMaps },
          kw \in { <<>>, <<[k |-> "t", v |-> Pair("lo", "hi2")]>> },
          closed \in ClosedArgs, drop \in BOOLEAN :
          /\ ivCall' = [df |-> IntervalTable(n), interval_cols |-> ic,
                        closed |-> closed, drop |-> drop, kwargs |-> kw]
          /\ ivRet' = set_intervals(IntervalTable(n), ic, closed, drop, kw)
    /\ UNCHANGED <<loadVars, processVars, configVars, labelfileVars, labelVars,
                   resolveVars>>

IntervalNext == SetIntervals

IntervalSpec == IntervalInit /\ [][IntervalNext]_vars

----------------------------------------------------------------------------
(* Claims about set_intervals *)

\* The entries the call is about: those of interval_cols, with those given
\* as keyword arguments
Entries(call) == EffectiveCols(call.interval_cols, call.kwargs)

\* The closedness the call selects for a target
SelectedClosed(call, target) ==
    CASE call.closed.t = "None" -> "right"
      [] call.closed.t = "str" -> call.closed.s
      [] call.closed.t = "map" -> Get(call.closed.items, target)

Sources(call) ==
    UNION { {Entries(call)[i].v[1], Entries(call)[i].v[2]} :
              i \in 1..Len(Entries(call)) }

ColumnSet(t) == {t.columns[i] : i \in 1..Len(t.columns)}

\* C19: in the table set_intervals returns, row i of the column of every
\* entry target -> (left_col, right_col) is the interval from left_col[i]
\* to right_col[i] with the closedness selected for the target; the source
\* columns are absent with drop=True and present, unchanged, with
\* drop=False; every other column is carried over unchanged.
C19_IntervalColumns ==
    (ivCall # NoCall /\ ivRet.exc = "none") =>
        /\ \A e \in {Entries(ivCall)[i] : i \in 1..Len(Entries(ivCall))} :
              /\ e.k \in ColumnSet(ivRet.out)
              /\ \A i \in 1..ivCall.df.nrows :
                    ivRet.out.cell[e.k][i] =
                       [left |-> ivCall.df.cell[e.v[1]][i],
                        right |-> ivCall.df.cell[e.v[2]][i],
                        closed |-> SelectedClosed(ivCall, e.k)]
        /\ \A c \in Sources(ivCall) :
              IF ivCall.drop THEN c \notin ColumnSet(ivRet.out)
              ELSE c \in ColumnSet(ivRet.out) /\ ivRet.out.cell[c] = ivCall.df.cell[c]
        /\ \A c \in ColumnSet(ivCall.df) \ Sources(ivCall) :
              c \in ColumnSet(ivRet.out) /\ ivRet.out.cell[c] = ivCall.df.cell[c]

\* C19 witness: lo and hi combined into t, closed on the left, the sources
\* dropped
C19_Witness ==
    /\ ivCall # NoCall
    /\ ivRet.exc = "none"
    /\ ivCall.drop
    /\ ivCall.closed = ClosedStr("left")
    /\ Keys(Entries(ivCall)) = <<"t">>
    /\ ivCall.df.nrows = 2
    /\ ivRet.out.columns = <<"c", "hi2", "dn", "t">>
    /\ ivRet.out.cell["t"] = <<Interval(0, 10, "left"), Interval(10, 20, "left")>>

----------------------------------------------------------------------------
(* DataLoader.__init__ and resolve_config *)

\* The contents of the configuration strings and files: option names and
\* values (of one section), as entries in order
ConfigText ==
    [n \in {"", "s1", "s2", "s3", "s4", "fileA", "fileB"} |->
        CASE n = "" -> <<>>
          [] n = "s1" -> <<[k |-> "opt", v |-> "one"]>>
          [] n = "s2" -> <<[k |-> "opt", v |-> "two"], [k |-> "more", v |-> "m"]>>
          [] n = "s3" -> <<[k |-> "root_path", v |-> "strroot"]>>
          [] n = "s4" -> <<[k |-> "opt", v |-> "four"],
                           [k |-> "root_path", v |-> "strroot"]>>
          [] n = "fileA" -> <<[k |-> "opt", v |-> "file"]>>
          [] n = "fileB" -> <<[k |-> "opt", v |-> "file"],
                              [k |-> "root_path", v |-> "fileroot"]>>]

\* ConfigParser.read_string(text) on a parser with the given options: the
\* options of the text are set, over the ones that are there
read_string(options, text) == DictUnion(options, ConfigText[text])

\* PathConfigParser.read(file): the file is read; a root path the parser
\* had before is kept over the one of the file, and a parser left without
\* root path gets the directory of the file
read(options, file) ==
    LET o == DictUnion(options, ConfigText[file]) IN
    IF HasKey(options, "root_path")
    THEN DictUnion(o, <<[k |-> "root_path", v |-> Get(options, "root_path")]>>)
    ELSE IF HasKey(o, "root_path") THEN o
    ELSE Append(o, [k |-> "root_path", v |-> "dir"])

\* PathConfigParser.__init__(root_path=root): the root path given is set as
\* the root-path option of the default section
PathConfigParserNew(root) ==
    IF root # "None" THEN <<[k |-> "root_path", v |-> root]>> ELSE <<>>

\* The property root_path: the root-path option, None when there is none
root_path(options) ==
    IF HasKey(options, "root_path") THEN Get(options, "root_path") ELSE "None"

\* DataConfig(config_file=file, config_str=text, root_path=root), "None"
\* where not given
DataConfigInit(file, text, root) ==
    With(PathConfigParserNew(root), LAMBDA o :
    IF file # "None"
    THEN [err |-> "none",
          options |-> IF text \notin {"None", ""}
                      THEN read_string(read(o, file), text)
                      ELSE read(o, file)]
    ELSE IF text = "None" THEN [err |-> "ValueError", options |-> <<>>]
    ELSE [err |-> "none",
          options |-> IF text # "" THEN read_string(o, text) ELSE o])

\* DataConfig(config_file=file, config_str=text)
DataConfigNew(file, text) == DataConfigInit(file, text, "None")

\* The argument data_config: None, a Path, a DataConfig object (known by
\* its identity), or a value of another type
ArgNone == [t |-> "None", id |-> 0, file |-> ""]
ArgPath(file) == [t |-> "Path", id |-> 0, file |-> file]
ArgConfig(id) == [t |-> "DataConfig", id |-> id, file |-> ""]
ArgOther == [t |-> "other", id |-> 0, file |-> ""]

\* The branch of resolve_config for a DataConfig argument with a string:
\* data_config.read_string(data_config_str), on the object passed
ReadInto(objs, id, text) ==
    [err |-> "none", objs |-> [objs EXCEPT ![id] = read_string(objs[id], text)],
     id |-> id]

\* resolve_config(data_config, data_config_str, allow_empty) on the objects
\* `objs`: the objects after the call and the identity of the one returned
resolve_config(objs, data_config, data_config_str, allow_empty) ==
    LET New(r) == IF r.err # "none" THEN [err |-> r.err, objs |-> objs, id |-> 0]
                  ELSE [err |-> "none", objs |-> Append(objs, r.options),
                        id |-> Len(objs) + 1]
    IN
    IF data_config.t = "Path" THEN New(DataConfigNew(data_config.file, "None"))
    ELSE IF data_config.t = "None" THEN
        IF data_config_str = "None"
        THEN IF allow_empty THEN New(DataConfigNew("None", ""))
             ELSE [err |-> "NoDataConfigError", objs |-> objs, id |-> 0]
        ELSE New(DataConfigNew("None", data_config_str))
    ELSE IF data_config.t # "DataConfig"
    THEN [err |-> "TypeError", objs |-> objs, id |-> 0]
    ELSE IF data_config_str # "None"
    THEN ReadInto(objs, data_config.id, data_config_str)
    ELSE [err |-> "none", objs |-> objs, id |-> data_config.id]

\* DataLoader.__init__(data_config, data_config_str)
DataLoaderNew(objs, data_config, data_config_str) ==
    resolve_config(objs, data_config, data_config_str, TRUE)

ConfigStrings == {"None", "", "s1", "s2"}

ConfigInit ==
    /\ ConfigIdle
    /\ LoadIdle
    /\ ProcessIdle
    /\ IntervalIdle
    /\ LabelfileIdle
    /\ LabelIdle
    /\ ResolveIdle

\* The caller builds a DataConfig object of its own
NewDataConfig ==
    /\ Len(configs) < MaxLen
    /\ \E text \in {"s1", "s2"} :
       \E r \in {DataConfigNew("None", text)} :
          /\ configs' = Append(configs, r.options)
          /\ cfgExc' = r.err
    /\ UNCHANGED <<loaders, cfgSeen, cfgCall, listVars, rootVars, loadVars,
                   processVars, intervalVars, labelfileVars, labelVars,
                   resolveVars>>

\* A loader is constructed
NewLoader ==
    /\ Len(loaders) < MaxLen
    /\ \E dc \in {ArgNone, ArgOther, ArgPath("fileA")}
                 \cup { ArgConfig(i) : i \in 1..Len(configs) },
          text \in ConfigStrings :
       \E r \in {DataLoaderNew(configs, dc, text)} :
          /\ configs' = r.objs
          /\ cfgExc' = r.err
          /\ cfgCall' = [data_config |-> dc, data_config_str |-> text,
                         id |-> r.id]
          /\ IF r.err = "none"
             THEN /\ loaders' = Append(loaders, r.id)
                  /\ cfgSeen' = Append(cfgSeen, r.objs[r.id])
             ELSE UNCHANGED <<loaders, cfgSeen>>
    /\ UNCHANGED <<listVars, rootVars, loadVars, processVars, intervalVars,
                   labelfileVars, labelVars, resolveVars>>

ConfigNext == NewDataConfig \/ NewLoader

ConfigSpec == ConfigInit /\ [][ConfigNext]_vars

----------------------------------------------------------------------------
(* Claims about the configuration of loaders *)

\* C20: constructing another loader, with any data_config and
\* data_config_str (the DataConfig object given to an earlier loader
\* included), changes no option value seen through the data_config of a
\* loader built before: every loader's configuration is what it was when
\* the loader was built.
C20_NoSharedConfig ==
    \A i \in 1..Len(loaders) : configs[loaders[i]] = cfgSeen[i]

\* The last constructor was given a configuration and a string, and
\* returned
BothGiven ==
    /\ cfgCall # NoCall
    /\ cfgExc = "none"
    /\ cfgCall.data_config.t \in {"Path", "DataConfig"}
    /\ cfgCall.data_config_str # "None"

\* C29: resolve_config applies data_config_str on top of data_config
\* whenever both are given, for a Path as for a DataConfig: every option of
\* the string has the value of the string in the configuration returned.
C29_StringOnTop ==
    BothGiven =>
        \A i \in DOMAIN ConfigText[cfgCall.data_config_str] :
            With(ConfigText[cfgCall.data_config_str][i], LAMBDA e :
                /\ HasKey(configs[cfgCall.id], e.k)
                /\ Get(configs[cfgCall.id], e.k) = e.v)

----------------------------------------------------------------------------
(* resolve_variables on trees with sequences and with leaves that are not
   strings, and with the keys of a mapping in any order *)

Bool(chars) == [t |-> "bool", s |-> chars, items |-> <<>>]
Null == [t |-> "none", s |-> <<"N", "o", "n", "e">>, items |-> <<>>]

RefC == <<"$", "{", "c", "}">>
RefC1 == <<"$", "{", "c", "/", "1", "}">>

ValueLeaves ==
    { Str(<<"x">>), Str(RefA), Str(RefC), Str(RefCK), Str(RefC1),
      Num(<<"5">>), Bool(<<"T", "r", "u", "e">>), Null,
      Map(<<KV(<<"k">>, Str(<<"x">>))>>),
      Map(<<KV(<<"k">>, Num(<<"5">>))>>),
      Lst(<<Str(<<"x">>), Str(<<"y">>)>>) }

ValueKeys == <<"a", "c", "b", "d">>
ValueKeyName(i) == <<ValueKeys[i]>>

\* The mappings with the keys a, c, ... in every iteration order
ValueTrees ==
    UNION { { Map([i \in 1..n |-> KV(ValueKeyName(p[i]), f[p[i]])]) :
                f \in [1..n -> ValueLeaves], p \in Permutations(1..n) } :
            n \in 1..MaxValueKeys }

ValueInit == ResolveInitFrom(ValueTrees)

ValueSpec == ValueInit /\ [][ResolveNext]_vars

\* The while loop of resolve_variables from its n-th iteration, run to its
\* end: [exc, data]
RECURSIVE WhileFrom(_, _, _)
WhileFrom(tree, n, mi) ==
    With(crawl_through_data(tree), LAMBDA r :
    IF r.err # "none" THEN [exc |-> r.err, data |-> r.root]
    ELSE IF ~LoopContinues(r.made) THEN [exc |-> "none", data |-> r.root]
    ELSE IF LoopExceeded(n + 1, mi)
    THEN [exc |-> "VarResolutionError", data |-> r.root]
    ELSE WhileFrom(r.root, n + 1, mi))

\* resolve_variables(tree, max_iterations=mi), run to its end: [exc, data]
resolve_variables(tree, mi) ==
    IF tree.t = "str"
    THEN With(substitute_var(tree.s, tree), LAMBDA r :
         [exc |-> r.err, data |-> Str(r.s)])
    ELSE WhileFrom(tree, 0, mi)

----------------------------------------------------------------------------
(* Claims about passes, sequences, leaves that are not strings, and the
   order of keys *)

\* C22: one call of resolve_variables with max_iterations >= 1 never runs
\* more than max_iterations whole-tree passes: when the max_iterations-th
\* pass still makes a change the error is raised with no further pass.
C22_AtMostMaxPasses == (max_iterations >= 1) => passes <= max_iterations

SeqTree ==
    Map(<<KV(<<"c">>, Lst(<<Str(<<"x">>), Str(<<"y">>)>>)),
          KV(<<"a">>, Str(RefC1))>>)

\* C23: in the tree {c: ["x", "y"], a: "${c/1}"} the segment "1" indexes the
\* sequence: the call returns, with a == "y".
C23_SequenceIndex ==
    (ncall = 1 /\ callerBefore = SeqTree /\ Done)
        => (pc = "returned" /\ data.items[2].v = Str(<<"y">>))

\* The leaves of a tree
RECURSIVE LeavesOf(_)
LeavesOf(node) ==
    IF IsContainer(node)
    THEN UNION { LeavesOf(node.items[i].v) : i \in DOMAIN node.items }
    ELSE {node}

\* A tree with a leaf that is no string, and with no pattern in its strings
PlainWithScalars(tree) ==
    /\ \E l \in LeavesOf(tree) : l.t # "str"
    /\ \A l \in LeavesOf(tree) : l.t = "str" => ~HasMatch(l.s)

\* C24: a tree with leaves that are neither containers nor strings is
\* resolved without error and these leaves are unchanged: when none of its
\* strings holds a pattern the call returns the tree as it was.
C24_ScalarLeaves ==
    (ncall = 1 /\ Done /\ PlainWithScalars(callerBefore))
        => (pc = "returned" /\ data = callerBefore)

\* The first entry of the tree is "${c}" and the entry c is a number
RefsNumber(tree) ==
    /\ tree.t = "map"
    /\ tree.items[1].v = Str(RefC)
    /\ \E j \in DOMAIN tree.items :
          tree.items[j].k = <<"c">> /\ tree.items[j].v.t = "num"

\* C25: a pattern whose path leads to a value that is no string (the number
\* 5) is replaced by the string form of the value ("5"), with no error.
C25_StringForm ==
    (ncall = 1 /\ Done /\ RefsNumber(callerBefore))
        => /\ exc = "none"
           /\ \A j \in DOMAIN callerBefore.items :
                 callerBefore.items[j].k = <<"c">>
                     => data.items[1].v = Str(callerBefore.items[j].v.s)

\* The mappings that differ from `tree` in the order of its keys only
Reorderings(tree) ==
    { Map([i \in DOMAIN tree.items |-> tree.items[p[i]]]) :
        p \in Permutations(DOMAIN tree.items) }

\* Equal as mappings: the same keys with the same values, in any order
RECURSIVE SameMapping(_, _)
SameMapping(x, y) ==
    IF x.t # "map" \/ y.t # "map" THEN x = y
    ELSE /\ Len(x.items) = Len(y.items)
         /\ \A i \in DOMAIN x.items : \E j \in DOMAIN y.items :
               /\ x.items[i].k = y.items[j].k
               /\ SameMapping(x.items[i].v, y.items[j].v)

\* C30: the outcome of resolve_variables does not depend on the order of
\* the keys of a mapping: a tree and any reordering of it both raise
\* VarResolutionError or both return, and return equal mappings.
C30_KeyOrder ==
    (ncall = 1 /\ Done /\ callerBefore.t = "map")
        => \A t \in Reorderings(callerBefore) :
              With(resolve_variables(t, max_iterations), LAMBDA o :
                  /\ (o.exc = "VarResolutionError") <=> (exc = "VarResolutionError")
                  /\ (o.exc = "none") <=> (exc = "none")
                  /\ (o.exc = "none" /\ exc = "none") => SameMapping(o.data, data))

----------------------------------------------------------------------------
(* ConfigParserListMixin.getlist *)

\* An attribute of the parser that was never assigned
Unset == "unset"

\* ConfigParserListMixin(list_separator, strip_items): the setters run for
\* the arguments that are not None
ConfigParserListMixinNew(list_separator, strip_items) ==
    [list_separator |-> IF list_separator # "None" THEN list_separator
                        ELSE Unset,
     strip_items |-> IF strip_items # "None" THEN strip_items ELSE Unset]

\* The properties list_separator and strip_items: the private attribute is
\* returned; reading one that was never assigned raises AttributeError,
\* which `except NameError` lets through
PropertyGet(attr) ==
    IF attr = Unset THEN [err |-> "AttributeError", v |-> Unset]
    ELSE [err |-> "none", v |-> attr]

Whitespace == {" ", "\n"}

\* str.strip()
RECURSIVE StrStrip(_)
StrStrip(chars) ==
    IF chars = <<>> THEN chars
    ELSE IF Head(chars) \in Whitespace THEN StrStrip(Tail(chars))
    ELSE IF chars[Len(chars)] \in Whitespace
    THEN StrStrip(SubSeq(chars, 1, Len(chars) - 1))
    ELSE chars

\* str.split(sep) for a separator of one character
RECURSIVE StrSplitFrom(_, _, _, _)
StrSplitFrom(chars, sep, i, cur) ==
    IF i > Len(chars) THEN <<cur>>
    ELSE IF chars[i] = sep
    THEN <<cur>> \o StrSplitFrom(chars, sep, i + 1, <<>>)
    ELSE StrSplitFrom(chars, sep, i + 1, Append(cur, chars[i]))

StrSplit(chars, sep) == StrSplitFrom(chars, sep, 1, <<>>)

\* The value split, with the whole and the items stripped when asked
SplitValue(value, sep, strip) ==
    IF strip = "True"
    THEN With(StrSplit(StrStrip(value), sep), LAMBDA l :
         [i \in DOMAIN l |-> StrStrip(l[i])])
    ELSE StrSplit(value, sep)

\* getlist(section, option, list_separator, strip_items) on a parser whose
\* option has the given value: [exc, out]
getlist(self, value, list_separator, strip_items) ==
    With(IF list_separator = "None" THEN PropertyGet(self.list_separator)
         ELSE [err |-> "none", v |-> list_separator], LAMBDA sep :
    IF sep.err # "none" THEN [exc |-> sep.err, out |-> <<>>]
    ELSE
    With(IF strip_items = "None" THEN PropertyGet(self.strip_items)
         ELSE [err |-> "none", v |-> strip_items], LAMBDA strip :
    IF strip.err # "none" THEN [exc |-> strip.err, out |-> <<>>]
    ELSE [exc |-> "none", out |-> SplitValue(value, sep.v, strip.v)]))

Separators == {"\n", ",", ";"}
StripFlags == {"True", "False"}

\* Option values: lines, with blanks around the items, and separators
OptionValues ==
    { <<"\n", "a", " ", "\n", " ", "b">>,
      <<"a", ",", " ", "b">>,
      <<"a", ";", "b", ",", "c">>,
      <<" ", "a", "\n">>,
      <<>> }

ListInit ==
    /\ ConfigIdle
    /\ LoadIdle
    /\ ProcessIdle
    /\ IntervalIdle
    /\ LabelfileIdle
    /\ LabelIdle
    /\ ResolveIdle

\* A parser is constructed
NewListParser ==
    /\ glParser = NoCall
    /\ \E sep \in {"None"} \cup Separators, strip \in {"None"} \cup StripFlags :
          glParser' = ConfigParserListMixinNew(sep, strip)
    /\ UNCHANGED <<glCall, glRet, configs, loaders, cfgSeen, cfgExc, cfgCall,
                   rootVars, loadVars, processVars, intervalVars,
                   labelfileVars, labelVars, resolveVars>>

\* getlist is called on the parser
GetList ==
    /\ glParser # NoCall
    /\ glCall = NoCall
    /\ \E value \in OptionValues, sep \in {"None"} \cup Separators,
          strip \in {"None"} \cup StripFlags :
          /\ glCall' = [value |-> value, list_separator |-> sep,
                        strip_items |-> strip]
          /\ glRet' = getlist(glParser, value, sep, strip)
    /\ UNCHANGED <<glParser, configs, loaders, cfgSeen, cfgExc, cfgCall,
                   rootVars, loadVars, processVars, intervalVars,
                   labelfileVars, labelVars, resolveVars>>

ListNext == NewListParser \/ GetList

ListSpec == ListInit /\ [][ListNext]_vars

----------------------------------------------------------------------------
(* Claims about getlist *)

\* C21: getlist on a parser built without list_separator and strip_items,
\* called without them, uses the defaults: it returns the lines of the
\* value, each stripped; and a list_separator passed to the call is the one
\* the value is split on, whatever separator the parser has.
C21_Defaults ==
    (glCall # NoCall) =>
        /\ (/\ glParser.list_separator = Unset
            /\ glParser.strip_items = Unset
            /\ glCall.list_separator = "None"
            /\ glCall.strip_items = "None")
               => /\ glRet.exc = "none"
                  /\ glRet.out = SplitValue(glCall.value, "\n", "True")
        /\ (glCall.list_separator # "None" /\ glRet.exc = "none")
               => \E strip \in StripFlags :
                     glRet.out = SplitValue(glCall.value,
                                            glCall.list_separator, strip)

----------------------------------------------------------------------------
(* DataConfig and its root path *)

RootFiles == {"None", "fileA", "fileB"}
RootStrings == {"None", "", "s1", "s3", "s4"}
RootPaths == {"None", "R1", "R2"}

RootInit ==
    /\ ConfigIdle
    /\ LoadIdle
    /\ ProcessIdle
    /\ IntervalIdle
    /\ LabelfileIdle
    /\ LabelIdle
    /\ ResolveIdle

\* DataConfig(config_file, config_str, root_path=...)
NewRootedConfig ==
    /\ dcCall = NoCall
    /\ \E file \in RootFiles, text \in RootStrings, root \in RootPaths :
       \E r \in {DataConfigInit(file, text, root)} :
          /\ dcCall' = [config_file |-> file, config_str |-> text,
                        root_path |-> root, later |-> "None"]
          /\ dcRet' = [exc |-> r.err, options |-> r.options]
    /\ UNCHANGED <<configs, loaders, cfgSeen, cfgExc, cfgCall, listVars,
                   loadVars, processVars, intervalVars, labelfileVars,
                   labelVars, resolveVars>>

\* A file is read into the configuration after its construction
ReadLater ==
    /\ dcCall # NoCall
    /\ dcRet.exc = "none"
    /\ dcCall.later = "None"
    /\ \E file \in RootFiles \ {"None"} :
          /\ dcCall' = [dcCall EXCEPT !.later = file]
          /\ dcRet' = [dcRet EXCEPT !.options = read(@, file)]
    /\ UNCHANGED <<configs, loaders, cfgSeen, cfgExc, cfgCall, listVars,
                   loadVars, processVars, intervalVars, labelfileVars,
                   labelVars, resolveVars>>

RootNext == NewRootedConfig \/ ReadLater

RootSpec == RootInit /\ [][RootNext]_vars

----------------------------------------------------------------------------
(* Claims about the root path *)

\* The root path the configuration texts give: the one of the string when
\* it has one, else the one of the file, else None
ConfiguredRoot(call) ==
    IF call.config_str # "None" /\ HasKey(ConfigText[call.config_str], "root_path")
    THEN Get(ConfigText[call.config_str], "root_path")
    ELSE IF call.config_file # "None"
            /\ HasKey(ConfigText[call.config_file], "root_path")
    THEN Get(ConfigText[call.config_file], "root_path")
    ELSE "None"

\* C28: a DataConfig built with an explicit root_path R has root_path R
\* after construction, whatever root path config_file or config_str give;
\* built without one it has the root path of the configuration when there
\* is one, and otherwise the directory of config_file.
C28_RootPath ==
    (dcCall # NoCall /\ dcCall.later = "None" /\ dcRet.exc = "none") =>
        IF dcCall.root_path # "None"
        THEN root_path(dcRet.options) = dcCall.root_path
        ELSE IF ConfiguredRoot(dcCall) # "None"
        THEN root_path(dcRet.options) = ConfiguredRoot(dcCall)
        ELSE dcCall.config_file # "None" => root_path(dcRet.options) = "dir"

----------------------------------------------------------------------------
(* Claims about the orientation from_yaml uses *)

\* C26: from_yaml called without `orient`, on a definition with a metadata
\* block that has an `orient` key, builds the table with the orientation of
\* that key; without such a key, and for a flat definition, it builds the
\* table with the orientation "index".
C26_OrientFromFile ==
    (yamlCall # NoCall /\ ~yamlCall.orient_given /\ ctor # NoCall) =>
        ctor.orient =
            IF HasMetaBlock(yamlCall.def) /\ HasKey(yamlCall.def.items, "orient")
            THEN Get(yamlCall.def.items, "orient").s
            ELSE "index"

----------------------------------------------------------------------------
(* Claims about the object map_pd_index relabels *)

====
